---- MODULE Spec2Model ----
(***************************************************************************)
(* Kustomize overlay walker (package parser) of kustomap.                  *)
(*                                                                         *)
(* Strings are modelled as sequences of string tokens.  A path is the      *)
(* sequence of its "/"-separated segments ("" is <<>>, "." is <<".">>).    *)
(* A kustomization reference is the sequence of its tokens: a relative     *)
(* reference is its segments (<<"..", "b">> is "../b"), a remote one is    *)
(* <<"https://", host, seg, ..., "//", seg, ..., "?ref=", rev>>.           *)
(* A node id is the token sequence that fmt.Sprintf writes, separators     *)
(* included, so that two ids are equal exactly when the strings are.       *)
(***************************************************************************)
EXTENDS Naturals, Sequences, FiniteSets, TLC

VARIABLES
    pc,              \* position of Parse: "init", "walking", "done", "failed"
    fetcher,         \* Parser.fetcher: the entry fetcher
    repoInfo,        \* Parser.repoInfo: the entry repository
    elements,        \* Parser.graph.Elements
    baseURLs,        \* Parser.graph.BaseURLs (node id -> base URL)
    localRootPaths,  \* Parser.graph.LocalRootPaths (node id -> root path)
    visitedURLs,     \* Parser.visitedURLs (set of node ids)
    stack,           \* active processKustomization calls, innermost last
    docs,            \* the repositories' content as served so far (location -> outcome)
    factory,         \* outcome of fetcher creation per repository, as met so far
    lookups,         \* FindKustomizationInPath calls made so far, in order
    ttl,             \* Collector.ttl
    cache,           \* Collector.cache (host -> cacheEntry)
    mu,              \* Collector.mu: the holders of the read lock and of the write lock
    clock,           \* time.Now()
    graph,           \* the graph each CollectAndAttach call was handed
    collect,         \* position and locals of each CollectAndAttach call
    graphs,          \* MemoryStorage.graphs (graph id -> graph)
    saves,           \* the SaveGraph calls made so far, in order
    last,            \* the latest storage call and what it returned
    parsed,          \* what ParseNodeID has answered so far (node id -> answer)
    tempDirs,        \* the directories os.MkdirTemp made that are still on disk
    build,           \* the build request at hand: position and locals of Build
    responses,       \* the build requests answered so far, in order
    heap,            \* the maps and graphs the analyze requests have allocated
    analyze,         \* position and locals of each analyze request
    fetched          \* the latest call of a LocalFetcher and what it returned

\* the state of the walker
walkVars == <<pc, fetcher, repoInfo, elements, baseURLs, localRootPaths,
              visitedURLs, stack, docs, factory, lookups>>

\* the state of the CA collector and of its callers
certVars == <<ttl, cache, mu, clock, graph, collect>>

\* the state of the store, of the build handler and of Build
serverVars == <<graphs, saves, last, parsed, tempDirs, build, responses>>

\* the state of the analyze requests
analyzeVars == <<heap, analyze>>

\* what a parse leaves alone
beyondWalk == <<certVars, serverVars, analyzeVars, fetched>>

\* what the collector leaves alone
beyondCert == <<walkVars, serverVars, analyzeVars, fetched>>

\* what the store and the build handler leave alone
beyondServer == <<walkVars, certVars, analyzeVars, fetched>>

\* what the analyze requests leave alone: they save into the store
beyondAnalyze == <<walkVars, certVars, last, parsed, tempDirs, build, responses, fetched>>

\* what a call of a LocalFetcher leaves alone
beyondFetch == <<walkVars, certVars, serverVars, analyzeVars>>

vars == <<walkVars, certVars, serverVars, analyzeVars, fetched>>

\* no analyze request
NoAnalyze ==
    /\ heap = <<>>
    /\ analyze = <<>>
    /\ fetched = [op |-> "none"]

\* no collector is at work
NoCollector ==
    /\ ttl = 0
    /\ cache = <<>>
    /\ mu = [readers |-> {}, writer |-> {}]
    /\ clock = 0
    /\ graph = <<>>
    /\ collect = <<>>

\* the parser at rest
NoParser ==
    /\ pc = "init"
    /\ repoInfo = [Type |-> "unknown", Owner |-> <<>>, Repo |-> "", Ref |-> "",
                   BaseURL |-> <<>>, Path |-> <<>>, RootPath |-> <<>>]
    /\ fetcher = [repo |-> repoInfo, token |-> "", entry |-> FALSE]
    /\ elements = <<>>
    /\ baseURLs = <<>>
    /\ localRootPaths = <<>>
    /\ visitedURLs = {}
    /\ stack = <<>>
    /\ docs = <<>>
    /\ factory = <<>>
    /\ lookups = <<>>

\* an empty store and no build request
NoServer ==
    /\ graphs = <<>>
    /\ saves = <<>>
    /\ last = [op |-> "none"]
    /\ parsed = <<>>
    /\ tempDirs = {}
    /\ build = [pc |-> "idle"]
    /\ responses = <<>>

(***************************************************************************)
(* Bounds of the model.                                                    *)
(***************************************************************************)
\* number of distinct kustomization documents the repositories hold
MaxDocs == 3

(***************************************************************************)
(* Strings and paths.                                                      *)
(***************************************************************************)
Last(s) == s[Len(s)]

Front(s) == SubSeq(s, 1, Len(s) - 1)

IsPrefix(p, s) == Len(p) <= Len(s) /\ SubSeq(s, 1, Len(p)) = p

IndexOf(tok, s) ==
    IF \E i \in 1..Len(s) : s[i] = tok
    THEN CHOOSE i \in 1..Len(s) : s[i] = tok /\ \A j \in 1..(i - 1) : s[j] # tok
    ELSE 0

\* strings.Join(segs, "/") as tokens
RECURSIVE Slash(_)
Slash(segs) ==
    IF Len(segs) <= 1 THEN segs
    ELSE <<Head(segs), "/">> \o Slash(Tail(segs))

RECURSIVE CleanAcc(_, _, _)
CleanAcc(segs, acc, rooted) ==
    IF segs = <<>> THEN acc
    ELSE LET h == Head(segs)
             t == Tail(segs)
         IN  IF h \in {".", ""} THEN CleanAcc(t, acc, rooted)
             ELSE IF h = ".."
                  THEN IF acc # <<>> /\ Last(acc) # ".."
                       THEN CleanAcc(t, Front(acc), rooted)
                       ELSE IF rooted THEN CleanAcc(t, acc, rooted)
                            ELSE CleanAcc(t, Append(acc, ".."), rooted)
                  ELSE CleanAcc(t, Append(acc, h), rooted)

\* path.Clean of a relative path: "" and everything that cancels out is "."
Clean(segs) ==
    LET r == CleanAcc(segs, <<>>, FALSE)
    IN  IF r = <<>> THEN <<".">> ELSE r

\* path.Join(a, b): empty elements are ignored, the result is cleaned
Join(a, b) ==
    IF a = <<>> /\ b = <<>> THEN <<>> ELSE Clean(a \o b)

\* filepath.Clean(filepath.Join(root, rel)) for an absolute root
AbsJoin(root, rel) == CleanAcc(root \o rel, <<>>, TRUE)

resolvePath(basePath, relativePath) ==
    Join(Clean(basePath), Clean(relativePath))

\* names of the model's universe that end in .yaml or .yml once lower-cased
YAMLNamesLower == {"d.yaml", "x.yml"}

ToLower(s) ==
    CASE s = "D.YAML" -> "d.yaml"
      [] s = "X.YML" -> "x.yml"
      [] s = "GitLab.Example.com" -> "gitlab.example.com"
      [] OTHER -> s

isYAMLFile(ref) ==
    /\ ref # <<>>
    /\ ToLower(Last(ref)) \in YAMLNamesLower

\* strings.Trim(fullPath, "/") then the non-empty segments; every segment of the
\* universe is far shorter than maxLabelLenMulti, so all trailing segments fit
maxLabelLenMulti == 35

maxLabelLenSingle == 50

SegLen(s) == 1

RECURSIVE SlashLen(_)
SlashLen(segs) ==
    IF segs = <<>> THEN 0
    ELSE IF Len(segs) = 1 THEN SegLen(segs[1])
    ELSE SegLen(Head(segs)) + 1 + SlashLen(Tail(segs))

RECURSIVE LabelSegs(_, _)
LabelSegs(segs, n) ==
    IF n < Len(segs) /\ SlashLen(SubSeq(segs, Len(segs) - n, Len(segs))) <= maxLabelLenMulti
    THEN LabelSegs(segs, n + 1)
    ELSE SubSeq(segs, Len(segs) - n + 1, Len(segs))

getShortLabel(fullPath) ==
    LET segs == SelectSeq(fullPath, LAMBDA s : s # "")
    IN  IF segs = <<>> THEN <<"unknown">>
        ELSE LET label == LabelSegs(segs, 1)
                 maxLen == IF Len(label) > 1 THEN maxLabelLenMulti ELSE maxLabelLenSingle
             IN  IF SlashLen(label) > maxLen THEN <<label[1], "...">> ELSE Slash(label)

(***************************************************************************)
(* Repositories.                                                           *)
(***************************************************************************)
GitHub == "github"

GitLab == "gitlab"

Local == "local"

Unknown == "unknown"

RepositoryInfo(type, owner, repo, ref, baseURL, path, rootPath) ==
    [Type |-> type, Owner |-> owner, Repo |-> repo, Ref |-> ref,
     BaseURL |-> baseURL, Path |-> path, RootPath |-> rootPath]

NoRepo == RepositoryInfo(Unknown, <<>>, "", "", <<>>, <<>>, <<>>)

defaultLocalRef == "main"

\* strings.TrimSuffix(s, ".git")
TrimGitSuffix(s) ==
    CASE s = "r.git" -> "r"
      [] s = "gr.git" -> "gr"
      [] OTHER -> s

\* strings.Contains(host, "github.com") and strings.Contains(host, "gitlab")
HostHasGitHub(host) == host \in {"github.com"}

HostHasGitLab(host) == host \in {"gitlab.example.com", "gitlab.other.com"}

\* the answer of the /api/v4/version and /api/v3 probes for the other hosts
probeRepositoryType(host) == Unknown

parseGitHubURL(parts, baseURL) ==
    IF Len(parts) < 2
    THEN [ok |-> FALSE, repo |-> NoRepo, err |-> "invalid GitHub repository path"]
    ELSE [ok |-> TRUE,
          repo |-> RepositoryInfo(GitHub, <<parts[1]>>, TrimGitSuffix(parts[2]),
                                  "main", baseURL, <<>>, <<>>),
          err |-> ""]

gitLabProject(namespaceParts, baseURL) ==
    IF Len(namespaceParts) < 2
    THEN [ok |-> FALSE, repo |-> NoRepo, err |-> "invalid GitLab repository path"]
    ELSE [ok |-> TRUE,
          repo |-> RepositoryInfo(GitLab, Front(namespaceParts),
                                  TrimGitSuffix(Last(namespaceParts)),
                                  "main", baseURL, <<>>, <<>>),
          err |-> ""]

\* the project is what precedes the /-/ marker, or the whole path
parseGitLabURL(parts, baseURL) ==
    gitLabProject(IF IndexOf("-", parts) > 1
                  THEN SubSeq(parts, 1, IndexOf("-", parts) - 1)
                  ELSE parts,
                  baseURL)

\* strings.Contains(path, "/-/") of the path trimmed of its slashes
HasMarker(parts) == \E i \in 2..(Len(parts) - 1) : parts[i] = "-"

DetectRepository(scheme, host, parts) ==
    IF HostHasGitHub(host) THEN parseGitHubURL(parts, <<scheme, host>>)
    ELSE IF HostHasGitLab(host) \/ HasMarker(parts)
            \/ probeRepositoryType(host) = GitLab
    THEN parseGitLabURL(parts, <<scheme, host>>)
    ELSE IF probeRepositoryType(host) = GitHub
    THEN parseGitHubURL(parts, <<scheme, host>>)
    ELSE [ok |-> FALSE, repo |-> NoRepo, err |-> "unable to detect repository type"]

(***************************************************************************)
(* References of a kustomization.                                          *)
(***************************************************************************)
ReferenceRemote == "remote"

ReferenceRelative == "relative"

KustomizeReference(type, repo, path, rel) ==
    [ok |-> TRUE, Type |-> type, RepoInfo |-> repo, Path |-> path,
     RelativePath |-> rel, err |-> ""]

remoteReference(det, refOverride, path) ==
    IF ~det.ok
    THEN [ok |-> FALSE, Type |-> ReferenceRemote, RepoInfo |-> NoRepo, Path |-> <<>>,
          RelativePath |-> <<>>, err |-> det.err]
    ELSE KustomizeReference(ReferenceRemote,
             IF refOverride # "" THEN [det.repo EXCEPT !.Ref = refOverride] ELSE det.repo,
             path, <<>>)

\* the two forms: repo//path?ref=rev (di > 0), or owner/repo/path?ref=rev
splitReference(scheme, host, rest, noQuery, di, refOverride) ==
    IF di > 0
    THEN remoteReference(DetectRepository(scheme, host, SubSeq(rest, 1, di - 1)),
                         refOverride, SubSeq(noQuery, di + 1, Len(noQuery)))
    ELSE IF Len(noQuery) >= 2
    THEN remoteReference(DetectRepository(scheme, host, SubSeq(noQuery, 1, 2)),
                         refOverride, SubSeq(noQuery, 3, Len(noQuery)))
    ELSE remoteReference(DetectRepository(scheme, host, noQuery), refOverride, <<>>)

queryOfReference(scheme, host, rest, qi) ==
    splitReference(scheme, host, rest,
                   IF qi > 0 THEN SubSeq(rest, 1, qi - 1) ELSE rest,
                   IndexOf("//", rest),
                   IF qi > 0 /\ qi < Len(rest) THEN rest[qi + 1] ELSE "")

parseHTTPReference(ref) ==
    queryOfReference(ref[1], ref[2], SubSeq(ref, 3, Len(ref)),
                     IndexOf("?ref=", SubSeq(ref, 3, Len(ref))))

\* git@host:org/repo... becomes https://host/org/repo...
parseGitSSHReference(ref) ==
    parseHTTPReference(<<"https://", ref[2]>> \o SubSeq(ref, 4, Len(ref)))

ParseReference(ref) ==
    IF ref # <<>> /\ Head(ref) \in {"https://", "http://"} THEN parseHTTPReference(ref)
    ELSE IF ref # <<>> /\ Head(ref) = "git@" THEN parseGitSSHReference(ref)
    ELSE KustomizeReference(ReferenceRelative, NoRepo, <<>>, ref)

(***************************************************************************)
(* Node ids.                                                               *)
(***************************************************************************)
buildNodeID(repo, nodePath) ==
    IF repo.Type = Local
    THEN <<"local", ":">> \o Slash(nodePath) \o <<"@", repo.Ref>>
    ELSE <<repo.Type, ":">> \o Slash(repo.Owner) \o <<"/", repo.Repo, "/">>
         \o Slash(nodePath) \o <<"@", repo.Ref>>

errorNodeID(ref) == <<"error", ":">> \o ref

\* sameRepoAsEntry: owner and repo for remotes, RootPath for two local repos
sameRepoAsEntry(entry, current) ==
    IF entry.Type = Local /\ current.Type = Local
    THEN entry.RootPath # <<>> /\ entry.RootPath = current.RootPath
    ELSE entry.Owner = current.Owner /\ entry.Repo = current.Repo

(***************************************************************************)
(* The local file system: $HOME, its directories, the git work trees.      *)
(***************************************************************************)
Home == <<"h">>

LocalDirs == {<<"h">>, <<"h", "r1">>, <<"h", "r1", "b">>, <<"h", "r2">>}

GitRoots == {<<"h", "r1">>, <<"h", "r2">>}

\* ValidateLocalPath of an absolute, cleaned path: under $HOME, existing directory
ValidateLocalPath(absPath) ==
    IF ~IsPrefix(Home, absPath)
    THEN [ok |-> FALSE, path |-> <<>>, err |-> "path must be under $HOME"]
    ELSE IF absPath \notin LocalDirs
         THEN [ok |-> FALSE, path |-> <<>>, err |-> "path does not exist"]
         ELSE [ok |-> TRUE, path |-> absPath, err |-> ""]

\* findGitRoot: the nearest directory at or above dir that holds .git, within $HOME
findGitRoot(dir) ==
    LET roots == {g \in GitRoots : IsPrefix(g, dir) /\ IsPrefix(Home, g)}
    IN  IF roots = {} THEN dir
        ELSE CHOOSE g \in roots : \A o \in roots : Len(o) <= Len(g)

localRepository(resolvedPath, rootPath) ==
    RepositoryInfo(Local, <<>>, "", defaultLocalRef, <<>>,
                   SubSeq(resolvedPath, Len(rootPath) + 1, Len(resolvedPath)), rootPath)

DetectLocalRepository(resolvedPath) ==
    IF resolvedPath \notin LocalDirs
    THEN [ok |-> FALSE, repo |-> NoRepo, err |-> "cannot access path"]
    ELSE [ok |-> TRUE, repo |-> localRepository(resolvedPath, findGitRoot(resolvedPath)),
          err |-> ""]

(***************************************************************************)
(* Fetchers.  A fetcher is the repository and token it was created with;   *)
(* entry tells the parser's own fetcher from one made during the walk.     *)
(***************************************************************************)
\* Parser.tokens after handleAnalyze's two SetToken calls
tokens(type) ==
    CASE type = GitHub -> "ghtok"
      [] type = GitLab -> "gltok"
      [] OTHER -> ""

Fetcher(repo, token, entry) == [repo |-> repo, token |-> token, entry |-> entry]

\* NewFetcher: NewGitHubFetcher never fails, NewGitLabFetcher fails when the
\* client cannot be built, NewLocalFetcher fails without a RootPath
NewFetcherMayFail(repo) == repo.Type = GitLab

NewFetcherMustFail(repo) ==
    \/ repo.Type = Local /\ repo.RootPath = <<>>
    \/ repo.Type \notin {GitHub, GitLab, Local}

\* where FindKustomizationInPath of a fetcher looks: the directory on disk, or the
\* API it calls with its credentials, project, revision and path
LocalFull(f, path) == AbsJoin(f.repo.RootPath, path)

LocalEscapes(f, path) == ~IsPrefix(f.repo.RootPath, LocalFull(f, path))

Location(f, path) ==
    CASE f.repo.Type = Local -> <<"file:">> \o LocalFull(f, path)
      [] f.repo.Type = GitHub ->
            <<"api.github.com", f.token>> \o f.repo.Owner
            \o <<f.repo.Repo, "@", f.repo.Ref, ":">> \o path
      [] OTHER ->
            f.repo.BaseURL \o <<"/api/v4", f.token>> \o f.repo.Owner
            \o <<f.repo.Repo, "@", f.repo.Ref, ":">> \o path

(***************************************************************************)
(* Kustomization documents.                                                *)
(***************************************************************************)
Kustomization(resources, bases, components) ==
    [status |-> "found", resources |-> resources, bases |-> bases,
     components |-> components, err |-> ""]

NotFound == [status |-> "notfound", resources |-> <<>>, bases |-> <<>>,
             components |-> <<>>, err |-> "no kustomization file found in path"]

InvalidYAML == [status |-> "badyaml", resources |-> <<>>, bases |-> <<>>,
                components |-> <<>>, err |-> "failed to parse kustomization YAML"]

PathEscapes == [status |-> "notfound", resources |-> <<>>, bases |-> <<>>,
                components |-> <<>>, err |-> "path escapes repository root"]

RelB == <<"..", "b">>

RelA == <<"..", "a">>

RelN == <<".", "n">>

YamlFile == <<"d.yaml">>

YamlUpper == <<"X.YML">>

YamlInB == <<"..", "b", "d.yaml">>

UrlGitHub == <<"https://", "github.com", "go", "gr", "//", "c", "?ref=", "v1">>

UrlSameName == <<"https://", "github.com", "o", "r", "//", "c">>

UrlOtherHost == <<"https://", "gitlab.other.com", "o", "r", "//", "b">>

UrlUnknown == <<"https://", "unknown.invalid", "x", "y">>

LocB == <<"b">>

LocUp == <<"..">>

LocOtherRepo == <<"..", "r2">>

LocNowhere == <<"..", "zz">>

\* the documents a remote walk may meet
RemoteDocs ==
    { Kustomization(<<>>, <<>>, <<>>),
      Kustomization(<<RelB>>, <<>>, <<>>),
      Kustomization(<<>>, <<RelA>>, <<>>),
      Kustomization(<<UrlOtherHost, RelB>>, <<>>, <<>>),
      Kustomization(<<UrlUnknown>>, <<>>, <<UrlGitHub>>),
      Kustomization(<<>>, <<>>, <<RelN, YamlFile>>),
      Kustomization(<<UrlSameName, YamlFile>>, <<>>, <<YamlFile>>),
      Kustomization(<<UrlOtherHost, YamlInB>>, <<>>, <<>>) }

\* the documents a walk of local directories may meet
LocalDocs ==
    { Kustomization(<<>>, <<>>, <<>>),
      Kustomization(<<LocB>>, <<>>, <<>>),
      Kustomization(<<LocUp>>, <<>>, <<>>),
      Kustomization(<<LocNowhere>>, <<YamlUpper>>, <<LocOtherRepo>>) }

EntryGitLab(path) ==
    RepositoryInfo(GitLab, <<"o">>, "r", "main",
                   <<"https://", "gitlab.example.com">>, path, <<>>)

EntryLocal == DetectLocalRepository(<<"h", "r1">>).repo

EntryRepos == {EntryGitLab(<<"a">>), EntryGitLab(<<>>), EntryLocal}

FoundKeys == {k \in DOMAIN docs : docs[k].status = "found"}

\* what a lookup at a location may answer: what it answered before, or else any
\* document, absence or a file that is not valid YAML
Outcomes(f, path) ==
    LET key == Location(f, path)
    IN  IF f.repo.Type = Local /\ LocalEscapes(f, path) THEN {PathEscapes}
        ELSE IF key \in DOMAIN docs THEN {docs[key]}
        ELSE IF f.repo.Type = Local /\ LocalFull(f, path) \notin LocalDirs THEN {NotFound}
        ELSE {NotFound, InvalidYAML}
             \cup (IF Cardinality(FoundKeys) < MaxDocs
                   THEN (IF repoInfo.Type = Local THEN LocalDocs ELSE RemoteDocs)
                   ELSE {})

Served(f, path, out) ==
    IF f.repo.Type = Local /\ LocalEscapes(f, path) THEN docs
    ELSE (Location(f, path) :> out) @@ docs

(***************************************************************************)
(* The graph.                                                              *)
(***************************************************************************)
NoContent == [tag |-> "nil", error |-> <<>>, resources |-> <<>>, bases |-> <<>>,
              components |-> <<>>]

KustContent(kust) == [tag |-> "kust", error |-> <<>>, resources |-> kust.resources,
                      bases |-> kust.bases, components |-> kust.components]

ErrorContent(msg) == [tag |-> "error", error |-> msg, resources |-> <<>>,
                      bases |-> <<>>, components |-> <<>>]

NodeElement(id, type, path, content) ==
    [Group |-> "nodes", ID |-> id, Label |-> getShortLabel(path), Type |-> type,
     Path |-> path, Content |-> content, Source |-> <<>>, Target |-> <<>>,
     EdgeType |-> ""]

edgeID(sourceID, targetID) == sourceID \o <<"->">> \o targetID

EdgeElement(sourceID, targetID, edgeType) ==
    [Group |-> "edges", ID |-> edgeID(sourceID, targetID), Label |-> <<>>, Type |-> "",
     Path |-> <<>>, Content |-> NoContent, Source |-> sourceID, Target |-> targetID,
     EdgeType |-> edgeType]

HasNode(els, id) == \E i \in 1..Len(els) : els[i].Group = "nodes" /\ els[i].ID = id

NodeIndex(els, id) == CHOOSE i \in 1..Len(els) : els[i].Group = "nodes" /\ els[i].ID = id

SetURL(urls, id, baseURL) ==
    IF baseURL # <<>> THEN (id :> baseURL) @@ urls ELSE urls

\* addNode that drops the error node it finds and appends the new node at the end
addNodeReappending(els, id, nodeType, nodePath, content) ==
    IF HasNode(els, id)
    THEN IF els[NodeIndex(els, id)].Type = "error"
         THEN Append(SelectSeq(els, LAMBDA e : ~(e.Group = "nodes" /\ e.ID = id)),
                     NodeElement(id, nodeType, nodePath, content))
         ELSE els
    ELSE Append(els, NodeElement(id, nodeType, nodePath, content))

\* addNode that leaves the error node it finds as it is
addNodeKeepingError(els, id, nodeType, nodePath, content) ==
    IF HasNode(els, id) THEN els
    ELSE Append(els, NodeElement(id, nodeType, nodePath, content))

\* addNode: the elements after the call
addNode(els, id, nodeType, nodePath, content) ==
    IF HasNode(els, id)
    THEN LET i == NodeIndex(els, id)
         IN  IF els[i].Type = "error"
             THEN [els EXCEPT ![i] = NodeElement(id, nodeType, nodePath, content)]
             ELSE els
    ELSE Append(els, NodeElement(id, nodeType, nodePath, content))

\* addNode: the BaseURLs after the call
addNodeURLs(urls, id, baseURL) == SetURL(urls, id, baseURL)

\* addErrorNode without its search for the id
addErrorNodeUnchecked(els, id, path, errorMessage) ==
    Append(els, NodeElement(id, "error", path, ErrorContent(errorMessage)))

\* addErrorNode that overwrites the node it finds
addErrorNodeReplacing(els, id, path, errorMessage) ==
    IF HasNode(els, id)
    THEN [els EXCEPT ![NodeIndex(els, id)] =
             NodeElement(id, "error", path, ErrorContent(errorMessage))]
    ELSE Append(els, NodeElement(id, "error", path, ErrorContent(errorMessage)))

\* addErrorNode: the elements after the call
addErrorNode(els, id, path, errorMessage) ==
    IF HasNode(els, id) THEN els
    ELSE Append(els, NodeElement(id, "error", path, ErrorContent(errorMessage)))

\* addErrorNode: the BaseURLs after the call
addErrorNodeURLs(els, urls, id, baseURL) ==
    IF HasNode(els, id) THEN urls ELSE SetURL(urls, id, baseURL)

\* addEdge without its search for the edge id
addEdgeUnchecked(els, sourceID, targetID, edgeType) ==
    Append(els, EdgeElement(sourceID, targetID, edgeType))

\* addEdge: the elements after the call
addEdge(els, sourceID, targetID, edgeType) ==
    IF \E i \in 1..Len(els) :
          els[i].Group = "edges" /\ els[i].ID = edgeID(sourceID, targetID)
    THEN els
    ELSE Append(els, EdgeElement(sourceID, targetID, edgeType))

(***************************************************************************)
(* processResource / processReference up to the lookup of the child.       *)
(***************************************************************************)
\* what processReference has settled when it reaches the lookup of the child (kind
\* "lookup"), or how it ends before (kind "leaf" or "error"); how is the reference's
\* type, escapes tells a relative reference that left the root of a local repository
Plan(kind, childID, childPath, childRepo, baseURL, msg, f, how) ==
    [kind |-> kind, childID |-> childID, childPath |-> childPath,
     childRepo |-> childRepo, baseURL |-> baseURL, msg |-> msg,
     fetcher |-> f, how |-> how, escapes |-> FALSE]

NoFetcher == Fetcher(NoRepo, "", FALSE)

ErrorPlan(repo, path, msg) ==
    Plan("error", buildNodeID(repo, path), path, repo, repo.BaseURL, msg, NoFetcher, "")

\* relativeFetcher as it was before the cross-repository fix: always the entry fetcher
relativeFetcherEntry(currentRepo, childPath, created) ==
    Plan("lookup", buildNodeID(currentRepo, childPath), childPath, currentRepo,
         currentRepo.BaseURL, <<>>, fetcher, ReferenceRelative)

\* the fetcher of a relative reference that stays in the current repository
relativeFetcher(currentRepo, childPath, created) ==
    IF sameRepoAsEntry(repoInfo, currentRepo)
    THEN Plan("lookup", buildNodeID(currentRepo, childPath), childPath, currentRepo,
              currentRepo.BaseURL, <<>>, fetcher, ReferenceRelative)
    ELSE IF ~created
         THEN ErrorPlan(currentRepo, childPath, <<"Failed to create fetcher: ", "error">>)
         ELSE Plan("lookup", buildNodeID(currentRepo, childPath), childPath, currentRepo,
                   currentRepo.BaseURL, <<>>,
                   Fetcher(currentRepo, tokens(currentRepo.Type), FALSE), ReferenceRelative)

\* the external local repository, once validated and detected
externalFetcher(extRepo) ==
    IF NewFetcherMustFail(extRepo)
    THEN ErrorPlan(extRepo, extRepo.Path, <<"Failed to create fetcher: ", "error">>)
    ELSE [Plan("lookup", buildNodeID(extRepo, extRepo.Path), extRepo.Path, extRepo,
               extRepo.BaseURL, <<>>, Fetcher(extRepo, "", FALSE), ReferenceRelative)
             EXCEPT !.escapes = TRUE]

externalDetected(currentRepo, childPath, det) ==
    IF ~det.ok
    THEN ErrorPlan(currentRepo, childPath, <<"Failed to detect repository: ", det.err>>)
    ELSE externalFetcher(det.repo)

\* a relative reference of a local repository that leaves its root
externalLocal(currentRepo, childPath, valid) ==
    IF ~valid.ok
    THEN ErrorPlan(currentRepo, childPath, <<"Invalid local path: ", valid.err>>)
    ELSE externalDetected(currentRepo, childPath, DetectLocalRepository(valid.path))

\* filepath.Clean(filepath.Join(rootPath/currentPath, relativePath)) leaves the root
escapesRoot(currentRepo, currentPath, relativePath) ==
    /\ currentRepo.Type = Local
    /\ currentRepo.RootPath # <<>>
    /\ ~IsPrefix(currentRepo.RootPath,
                 AbsJoin(AbsJoin(currentRepo.RootPath, currentPath), relativePath))

remoteFetcher(childRepo, childPath, created) ==
    IF ~created
    THEN ErrorPlan(childRepo, childPath, <<"Failed to create fetcher: ", "error">>)
    ELSE Plan("lookup", buildNodeID(childRepo, childPath), childPath, childRepo,
              childRepo.BaseURL, <<>>, Fetcher(childRepo, tokens(childRepo.Type), FALSE),
              ReferenceRemote)

\* processReference after ParseReference has answered kref
parsedReference(kref, ref, currentPath, currentRepo, created) ==
    IF ~kref.ok
    THEN Plan("error", errorNodeID(ref), ref, currentRepo, currentRepo.BaseURL,
              <<"Failed to parse reference: ", kref.err>>, NoFetcher, "")
    ELSE IF kref.Type = ReferenceRemote
    THEN remoteFetcher(kref.RepoInfo, kref.Path, created)
    ELSE IF escapesRoot(currentRepo, currentPath, kref.RelativePath)
    THEN externalLocal(currentRepo, resolvePath(currentPath, kref.RelativePath),
             ValidateLocalPath(AbsJoin(AbsJoin(currentRepo.RootPath, currentPath),
                                       kref.RelativePath)))
    ELSE relativeFetcher(currentRepo, resolvePath(currentPath, kref.RelativePath), created)

yamlLeaf(currentRepo, resourcePath) ==
    Plan("leaf", buildNodeID(currentRepo, resourcePath), resourcePath, currentRepo,
         currentRepo.BaseURL, <<>>, NoFetcher, "")

processReference(ref, refType, currentPath, currentRepo, created) ==
    IF isYAMLFile(ref)
    THEN yamlLeaf(currentRepo, Join(currentPath, ref))
    ELSE parsedReference(ParseReference(ref), ref, currentPath, currentRepo, created)

\* processResource without its isYAMLFile test: every entry parsed as a reference
processResourceUnchecked(resource, currentPath, currentRepo, created) ==
    parsedReference(ParseReference(resource), resource, currentPath, currentRepo, created)

\* processResource: a YAML file is a resource leaf, anything else a reference
processResource(resource, currentPath, currentRepo, created) ==
    IF isYAMLFile(resource)
    THEN yamlLeaf(currentRepo, Join(currentPath, resource))
    ELSE processReference(resource, "resource", currentPath, currentRepo, created)

\* every reference typed "resource", components included
EdgeTypeResource(item) == "resource"

\* the edge type the caller passes: "resource" from processResource, refType otherwise
EdgeTypeOf(item) == item.list

PlanOf(frame, item, created) ==
    IF item.list = "resource"
    THEN processResource(item.ref, frame.path, frame.repo, created)
    ELSE processReference(item.ref, "component", frame.path, frame.repo, created)

\* the repository whose fetcher the reference makes the parser create, if any
neededFetcher(kref, currentPath, currentRepo) ==
    IF ~kref.ok THEN NoRepo
    ELSE IF kref.Type = ReferenceRemote THEN kref.RepoInfo
    ELSE IF sameRepoAsEntry(repoInfo, currentRepo) THEN NoRepo
    ELSE IF escapesRoot(currentRepo, currentPath, kref.RelativePath) THEN NoRepo
    ELSE currentRepo

NeedsFetcher(currentPath, currentRepo, ref) ==
    IF isYAMLFile(ref) THEN NoRepo
    ELSE neededFetcher(ParseReference(ref), currentPath, currentRepo)

(***************************************************************************)
(* The walk.                                                               *)
(***************************************************************************)
Item(list, ref) == [list |-> list, ref |-> ref]

\* processKustomization's two loops: resources, then bases, then components
Todo(kust) ==
    [i \in 1..Len(kust.resources \o kust.bases) |->
        Item("resource", (kust.resources \o kust.bases)[i])]
    \o [i \in 1..Len(kust.components) |-> Item("component", kust.components[i])]

Frame(nodeID, path, repo, todo) ==
    [nodeID |-> nodeID, path |-> path, repo |-> repo, todo |-> todo]

Top == stack[Len(stack)]

Cur == Head(Top.todo)

Walking == pc = "walking" /\ stack # <<>> /\ Top.todo # <<>>

\* the reference at hand is done: processKustomization moves to the next one
NextItem == [stack EXCEPT ![Len(stack)].todo = Tail(@)]

\* whether the fetcher the reference needs can be created, as the environment
\* answers (the same answer for the same repository throughout one parse)
Creations(need) ==
    IF need = NoRepo THEN {TRUE}
    ELSE IF NewFetcherMustFail(need) THEN {FALSE}
    ELSE IF need \in DOMAIN factory THEN {factory[need]}
    ELSE IF NewFetcherMayFail(need) THEN {TRUE, FALSE}
    ELSE {TRUE}

Created(need, created) ==
    IF need = NoRepo THEN factory ELSE (need :> created) @@ factory

\* one FindKustomizationInPath call: the fetcher and path it was made with, the id
\* and repository the content is handed to processKustomization with, the node,
\* repository and list ("entry", "resource" for resources and bases, "component")
\* the reference was met in, and whether the call expanded the id
Lookup(f, path, id, how, parent, current, repo, list, out) ==
    [fetcher |-> f, path |-> path, id |-> id, how |-> how, parent |-> parent,
     current |-> current, repo |-> repo, list |-> list,
     status |-> out.status, expanded |-> FALSE, escapes |-> FALSE]

ChildLookup(plan, out) ==
    [Lookup(plan.fetcher, plan.childPath, plan.childID, plan.how, Top.nodeID, Top.repo,
            plan.childRepo, Cur.list, out) EXCEPT !.escapes = plan.escapes]

SetLocalRoot(roots, plan) ==
    IF /\ plan.childRepo.Type = Local
       /\ plan.childRepo.RootPath # <<>>
       /\ ~sameRepoAsEntry(repoInfo, plan.childRepo)
    THEN (plan.childID :> plan.childRepo.RootPath) @@ roots
    ELSE roots

Init ==
    /\ pc = "init"
    /\ repoInfo \in EntryRepos
    /\ fetcher = Fetcher(repoInfo, tokens(repoInfo.Type), TRUE)
    /\ elements = <<>>
    /\ baseURLs = <<>>
    /\ localRootPaths = <<>>
    /\ visitedURLs = {}
    /\ stack = <<>>
    /\ docs = <<>>
    /\ factory = <<>>
    /\ lookups = <<>>
    /\ NoCollector
    /\ NoServer
    /\ NoAnalyze

EntryID == buildNodeID(repoInfo, repoInfo.Path)

\* Parse: the entry kustomization cannot be fetched
ParseFetchFails ==
    /\ pc = "init"
    /\ \E out \in Outcomes(fetcher, repoInfo.Path) :
          /\ out.status = "notfound"
          /\ docs' = Served(fetcher, repoInfo.Path, out)
          /\ lookups' = Append(lookups, Lookup(fetcher, repoInfo.Path, EntryID, "entry",
                                               <<>>, repoInfo, repoInfo, "entry", out))
    /\ pc' = "failed"
    /\ UNCHANGED <<fetcher, repoInfo, elements, baseURLs, localRootPaths, visitedURLs,
                   stack, factory>>
    /\ UNCHANGED beyondWalk

\* Parse: the entry document is not valid YAML
ParseInvalidYAML ==
    /\ pc = "init"
    /\ \E out \in Outcomes(fetcher, repoInfo.Path) :
          /\ out.status = "badyaml"
          /\ docs' = Served(fetcher, repoInfo.Path, out)
          /\ lookups' = Append(lookups, Lookup(fetcher, repoInfo.Path, EntryID, "entry",
                                               <<>>, repoInfo, repoInfo, "entry", out))
    /\ visitedURLs' = visitedURLs \cup {EntryID}
    /\ pc' = "failed"
    /\ UNCHANGED <<fetcher, repoInfo, elements, baseURLs, localRootPaths, stack, factory>>
    /\ UNCHANGED beyondWalk

\* Parse: the entry kustomization is processed as the overlay
ParseEntry ==
    /\ pc = "init"
    /\ \E out \in Outcomes(fetcher, repoInfo.Path) :
          /\ out.status = "found"
          /\ docs' = Served(fetcher, repoInfo.Path, out)
          /\ lookups' = Append(lookups,
                [Lookup(fetcher, repoInfo.Path, EntryID, "entry", <<>>, repoInfo, repoInfo,
                       "entry", out)
                    EXCEPT !.expanded = TRUE])
          /\ elements' = addNode(elements, EntryID, "overlay", repoInfo.Path,
                                 KustContent(out))
          /\ baseURLs' = addNodeURLs(baseURLs, EntryID, repoInfo.BaseURL)
          /\ stack' = <<Frame(EntryID, repoInfo.Path, repoInfo, Todo(out))>>
    /\ visitedURLs' = visitedURLs \cup {EntryID}
    /\ pc' = "walking"
    /\ UNCHANGED <<fetcher, repoInfo, localRootPaths, factory>>
    /\ UNCHANGED beyondWalk

\* a .yaml/.yml entry: a resource node and an edge, no lookup
leafReference(plan, created) ==
    /\ plan.kind = "leaf"
    /\ elements' = addEdge(addNode(elements, plan.childID, "resource",
                                   plan.childPath, NoContent),
                           Top.nodeID, plan.childID, EdgeTypeOf(Cur))
    /\ baseURLs' = addNodeURLs(baseURLs, plan.childID, plan.baseURL)
    /\ factory' = Created(NeedsFetcher(Top.path, Top.repo, Cur.ref), created)

Leaf ==
    /\ Walking
    /\ \E created \in Creations(NeedsFetcher(Top.path, Top.repo, Cur.ref)) :
          leafReference(PlanOf(Top, Cur, created), created)
    /\ stack' = NextItem
    /\ UNCHANGED <<pc, fetcher, repoInfo, localRootPaths, visitedURLs, docs, lookups>>
    /\ UNCHANGED beyondWalk

\* the reference cannot be parsed, or no fetcher can be made for it
failedReference(plan, created) ==
    /\ plan.kind = "error"
    /\ elements' = addEdge(addErrorNode(elements, plan.childID, plan.childPath,
                                        plan.msg),
                           Top.nodeID, plan.childID, EdgeTypeOf(Cur))
    /\ baseURLs' = addErrorNodeURLs(elements, baseURLs, plan.childID, plan.baseURL)
    /\ factory' = Created(NeedsFetcher(Top.path, Top.repo, Cur.ref), created)

RefError ==
    /\ Walking
    /\ \E created \in Creations(NeedsFetcher(Top.path, Top.repo, Cur.ref)) :
          failedReference(PlanOf(Top, Cur, created), created)
    /\ stack' = NextItem
    /\ UNCHANGED <<pc, fetcher, repoInfo, localRootPaths, visitedURLs, docs, lookups>>
    /\ UNCHANGED beyondWalk

\* missingChild with the error node added and the edge to it left out
missingChildNoEdge(plan, created) ==
    /\ plan.kind = "lookup"
    /\ \E out \in Outcomes(plan.fetcher, plan.childPath) :
          /\ out.status = "notfound"
          /\ docs' = Served(plan.fetcher, plan.childPath, out)
          /\ lookups' = Append(lookups, ChildLookup(plan, out))
          /\ elements' = addErrorNode(elements, plan.childID, plan.childPath,
                             <<"File not found or inaccessible: ", out.err>>)
    /\ baseURLs' = addErrorNodeURLs(elements, baseURLs, plan.childID, plan.baseURL)
    /\ localRootPaths' = SetLocalRoot(localRootPaths, plan)
    /\ factory' = Created(NeedsFetcher(Top.path, Top.repo, Cur.ref), created)

\* the child's kustomization is not found
missingChild(plan, created) ==
    /\ plan.kind = "lookup"
    /\ \E out \in Outcomes(plan.fetcher, plan.childPath) :
          /\ out.status = "notfound"
          /\ docs' = Served(plan.fetcher, plan.childPath, out)
          /\ lookups' = Append(lookups, ChildLookup(plan, out))
          /\ elements' = addEdge(
                addErrorNode(elements, plan.childID, plan.childPath,
                             <<"File not found or inaccessible: ", out.err>>),
                Top.nodeID, plan.childID, EdgeTypeOf(Cur))
    /\ baseURLs' = addErrorNodeURLs(elements, baseURLs, plan.childID, plan.baseURL)
    /\ localRootPaths' = SetLocalRoot(localRootPaths, plan)
    /\ factory' = Created(NeedsFetcher(Top.path, Top.repo, Cur.ref), created)

FetchFails ==
    /\ Walking
    /\ \E created \in Creations(NeedsFetcher(Top.path, Top.repo, Cur.ref)) :
          missingChild(PlanOf(Top, Cur, created), created)
    /\ stack' = NextItem
    /\ UNCHANGED <<pc, fetcher, repoInfo, visitedURLs>>
    /\ UNCHANGED beyondWalk

\* the child is fetched but its id was visited before: the edge is added, no more
visitedChild(plan, created) ==
    /\ plan.kind = "lookup"
    /\ plan.childID \in visitedURLs
    /\ \E out \in Outcomes(plan.fetcher, plan.childPath) :
          /\ out.status # "notfound"
          /\ docs' = Served(plan.fetcher, plan.childPath, out)
          /\ lookups' = Append(lookups, ChildLookup(plan, out))
    /\ elements' = addEdge(elements, Top.nodeID, plan.childID, EdgeTypeOf(Cur))
    /\ localRootPaths' = SetLocalRoot(localRootPaths, plan)
    /\ factory' = Created(NeedsFetcher(Top.path, Top.repo, Cur.ref), created)

AlreadyVisited ==
    /\ Walking
    /\ \E created \in Creations(NeedsFetcher(Top.path, Top.repo, Cur.ref)) :
          visitedChild(PlanOf(Top, Cur, created), created)
    /\ stack' = NextItem
    /\ UNCHANGED <<pc, fetcher, repoInfo, baseURLs, visitedURLs>>
    /\ UNCHANGED beyondWalk

\* invalidChild with the YAML error returned all the way up to Parse
invalidChildFatal(plan, created) ==
    /\ plan.kind = "lookup"
    /\ plan.childID \notin visitedURLs
    /\ \E out \in Outcomes(plan.fetcher, plan.childPath) :
          /\ out.status = "badyaml"
          /\ docs' = Served(plan.fetcher, plan.childPath, out)
          /\ lookups' = Append(lookups, ChildLookup(plan, out))
    /\ elements' = addEdge(elements, Top.nodeID, plan.childID, EdgeTypeOf(Cur))
    /\ visitedURLs' = visitedURLs \cup {plan.childID}
    /\ localRootPaths' = SetLocalRoot(localRootPaths, plan)
    /\ factory' = Created(NeedsFetcher(Top.path, Top.repo, Cur.ref), created)
    /\ pc' = "failed"

\* the child is fetched and new, but its content is not valid YAML:
\* processKustomization returns the error, which the caller's loop only logs
invalidChild(plan, created) ==
    /\ plan.kind = "lookup"
    /\ plan.childID \notin visitedURLs
    /\ \E out \in Outcomes(plan.fetcher, plan.childPath) :
          /\ out.status = "badyaml"
          /\ docs' = Served(plan.fetcher, plan.childPath, out)
          /\ lookups' = Append(lookups, ChildLookup(plan, out))
    /\ elements' = addEdge(elements, Top.nodeID, plan.childID, EdgeTypeOf(Cur))
    /\ visitedURLs' = visitedURLs \cup {plan.childID}
    /\ localRootPaths' = SetLocalRoot(localRootPaths, plan)
    /\ factory' = Created(NeedsFetcher(Top.path, Top.repo, Cur.ref), created)
    /\ pc' = pc

ChildInvalidYAML ==
    /\ Walking
    /\ \E created \in Creations(NeedsFetcher(Top.path, Top.repo, Cur.ref)) :
          invalidChild(PlanOf(Top, Cur, created), created)
    /\ stack' = NextItem
    /\ UNCHANGED <<fetcher, repoInfo, baseURLs>>
    /\ UNCHANGED beyondWalk

\* the child is fetched and new: edge, node, and its own references come next
newChild(plan, created) ==
    /\ plan.kind = "lookup"
    /\ plan.childID \notin visitedURLs
    /\ \E out \in Outcomes(plan.fetcher, plan.childPath) :
          /\ out.status = "found"
          /\ docs' = Served(plan.fetcher, plan.childPath, out)
          /\ lookups' = Append(lookups,
                [ChildLookup(plan, out) EXCEPT !.expanded = TRUE])
          /\ elements' = addNode(
                addEdge(elements, Top.nodeID, plan.childID, EdgeTypeOf(Cur)),
                plan.childID, EdgeTypeOf(Cur), plan.childPath, KustContent(out))
          /\ stack' = Append(NextItem,
                Frame(plan.childID, plan.childPath, plan.childRepo, Todo(out)))
    /\ baseURLs' = addNodeURLs(baseURLs, plan.childID, plan.baseURL)
    /\ visitedURLs' = visitedURLs \cup {plan.childID}
    /\ localRootPaths' = SetLocalRoot(localRootPaths, plan)
    /\ factory' = Created(NeedsFetcher(Top.path, Top.repo, Cur.ref), created)

Expand ==
    /\ Walking
    /\ \E created \in Creations(NeedsFetcher(Top.path, Top.repo, Cur.ref)) :
          newChild(PlanOf(Top, Cur, created), created)
    /\ UNCHANGED <<pc, fetcher, repoInfo>>
    /\ UNCHANGED beyondWalk

\* processKustomization has gone through its lists and returns nil
Return ==
    /\ pc = "walking"
    /\ stack # <<>>
    /\ Top.todo = <<>>
    /\ stack' = Front(stack)
    /\ pc' = IF Len(stack) = 1 THEN "done" ELSE pc
    /\ UNCHANGED <<fetcher, repoInfo, elements, baseURLs, localRootPaths, visitedURLs,
                   docs, factory, lookups>>
    /\ UNCHANGED beyondWalk

Next ==
    \/ ParseFetchFails
    \/ ParseInvalidYAML
    \/ ParseEntry
    \/ Leaf
    \/ RefError
    \/ FetchFails
    \/ AlreadyVisited
    \/ ChildInvalidYAML
    \/ Expand
    \/ Return

Spec == Init /\ [][Next]_vars

(***************************************************************************)
(* Properties of the graph and of the walk.                                *)
(***************************************************************************)
NodeIdx == {i \in 1..Len(elements) : elements[i].Group = "nodes"}

EdgeIdx == {i \in 1..Len(elements) : elements[i].Group = "edges"}

NodeOf(els, id) == els[NodeIndex(els, id)]

HasEdge(els, sourceID, targetID) ==
    \E i \in 1..Len(els) :
        els[i].Group = "edges" /\ els[i].Source = sourceID /\ els[i].Target = targetID

ConcreteTypes == {"overlay", "resource", "component"}

Expansions == {i \in 1..Len(lookups) : lookups[i].expanded}

\* the document a lookup was served
Document(l) == docs[Location(l.fetcher, l.path)]

\* C1: in the graph a successful Parse returns, every edge has a node element for
\* its source and a node element for its target, whatever the outcomes at the
\* descendant references were.
C1_EdgeEndpointsExist ==
    pc = "done" =>
        \A i \in EdgeIdx :
            /\ HasNode(elements, elements[i].Source)
            /\ HasNode(elements, elements[i].Target)

\* C2: at every step of a parse and in the returned graph no two node elements
\* have the same id.
C2_NodeIDsUnique ==
    \A i, j \in NodeIdx : elements[i].ID = elements[j].ID => i = j

\* a lookup failed for an id whose node is in the graph as a concrete node:
\* addErrorNode or addNode met the id it was called with
C2_Witness ==
    \E i \in 2..Len(lookups) :
        /\ lookups[i].status = "notfound"
        /\ HasNode(elements, lookups[i].id)
        /\ NodeOf(elements, lookups[i].id).Type \in ConcreteTypes

\* C3: the type of the node of an id changes only from error to a concrete type
\* (hence at most once): a node stays in the graph, a concrete node keeps its type,
\* an error node stays an error node or becomes overlay, resource or component.
C3_TypeOnlyUpgrades ==
    [][\A i \in NodeIdx :
          /\ HasNode(elements', elements[i].ID)
          /\ \/ NodeOf(elements', elements[i].ID).Type = elements[i].Type
             \/ /\ elements[i].Type = "error"
                /\ NodeOf(elements', elements[i].ID).Type \in ConcreteTypes]_vars

\* an id whose lookup failed first was expanded by a later reference: its error
\* node has become a concrete node
C3_Witness ==
    \E i, j \in 2..Len(lookups) :
        /\ i < j
        /\ lookups[i].id = lookups[j].id
        /\ lookups[i].status = "notfound"
        /\ lookups[j].expanded
        /\ HasNode(elements, lookups[j].id)
        /\ NodeOf(elements, lookups[j].id).Type \in ConcreteTypes

\* C4: each id is expanded at most once, so that the number of distinct expanded
\* ids never exceeds the number of distinct kustomization documents walked.
C4_ExpandedIDsWithinDocuments ==
    /\ \A i, j \in Expansions : lookups[i].id = lookups[j].id => i = j
    /\ Cardinality({lookups[i].id : i \in Expansions})
          <= Cardinality({Location(lookups[i].fetcher, lookups[i].path) : i \in Expansions})

\* the repositories hold two documents, A (the entry) and B, with one reference
\* each: A's is served B and B's is served A
TwoCycle ==
    /\ Cardinality(DOMAIN docs) = 2
    /\ \A k \in DOMAIN docs :
          /\ docs[k].status = "found"
          /\ Len(Todo(docs[k])) = 1
          /\ ~isYAMLFile(Todo(docs[k])[1].ref)
    /\ Len(lookups) >= 3
    /\ Location(lookups[2].fetcher, lookups[2].path)
          # Location(lookups[1].fetcher, lookups[1].path)
    /\ lookups[3].parent = lookups[2].id
    /\ Location(lookups[3].fetcher, lookups[3].path)
          = Location(lookups[1].fetcher, lookups[1].path)

\* C5: when A references B and B references A, Parse ends and the returned graph
\* has exactly 2 nodes and 2 edges.
C5_CycleTwoNodesTwoEdges ==
    (pc = "done" /\ TwoCycle) =>
        /\ Cardinality(NodeIdx) = 2
        /\ Cardinality(EdgeIdx) = 2

\* what the lookup a plan leads to answered
Answer(plan) ==
    IF plan.fetcher.repo.Type = Local /\ LocalEscapes(plan.fetcher, plan.childPath)
    THEN PathEscapes
    ELSE docs[Location(plan.fetcher, plan.childPath)]

\* the reference a plan stands for failed
Failed(plan) ==
    \/ plan.kind = "error"
    \/ plan.kind = "lookup" /\ Answer(plan).status \in {"notfound", "badyaml"}

\* the node a failed reference leaves: an error node that holds the message, or
\* the concrete node a successful reference to the same id has put in its place
FailureShown(plan) ==
    /\ HasNode(elements, plan.childID)
    /\ NodeOf(elements, plan.childID).Type = "error" =>
          /\ NodeOf(elements, plan.childID).Content.tag = "error"
          /\ NodeOf(elements, plan.childID).Content.error # <<>>

\* C6: in the returned graph every reference of every expanded kustomization has
\* its edge from the parent (the references after a failed one included), and every
\* reference that failed (unparseable, no fetcher, not found, not valid YAML) has
\* an error node holding the message.
C6_FailedReferenceHasErrorNode ==
    pc = "done" =>
        \A i \in Expansions :
            \A k \in 1..Len(Todo(Document(lookups[i]))) :
                \A created \in Creations(NeedsFetcher(lookups[i].path, lookups[i].repo,
                                                      Todo(Document(lookups[i]))[k].ref)) :
                    /\ HasEdge(elements, lookups[i].id,
                               PlanOf(lookups[i], Todo(Document(lookups[i]))[k],
                                      created).childID)
                    /\ Failed(PlanOf(lookups[i], Todo(Document(lookups[i]))[k], created))
                          => FailureShown(PlanOf(lookups[i],
                                                 Todo(Document(lookups[i]))[k], created))

\* C7: Parse returns an error and no graph exactly when the lookup of the entry
\* kustomization fails or the entry document is not valid YAML; once the entry is
\* processed no failure at a descendant makes Parse return an error.
C7_ParseFailsOnlyAtEntry ==
    /\ pc = "failed" =>
          /\ Len(lookups) = 1
          /\ lookups[1].status \in {"notfound", "badyaml"}
          /\ elements = <<>>
    /\ pc \in {"walking", "done"} =>
          /\ lookups[1].how = "entry"
          /\ lookups[1].status = "found"

\* Parse has returned its graph although a descendant was not found and another
\* one was not valid YAML
C7_Witness ==
    /\ pc = "done"
    /\ \E i, j \in 2..Len(lookups) :
          /\ lookups[i].status = "notfound"
          /\ lookups[j].status = "badyaml"

\* C8 as stated: a relative reference met outside the entry repository is looked
\* up with a fetcher made for the current repository with the token of its kind,
\* one met in the entry repository with the entry fetcher, and a remote reference
\* with a new fetcher made for the target repository.
C8_FetcherOfReference ==
    \A i \in 2..Len(lookups) :
        /\ (lookups[i].how = ReferenceRelative
              /\ ~sameRepoAsEntry(repoInfo, lookups[i].current)) =>
              lookups[i].fetcher = Fetcher(lookups[i].current,
                                           tokens(lookups[i].current.Type), FALSE)
        /\ (lookups[i].how = ReferenceRelative
              /\ sameRepoAsEntry(repoInfo, lookups[i].current)) =>
              lookups[i].fetcher = fetcher
        /\ lookups[i].how = ReferenceRemote =>
              lookups[i].fetcher = Fetcher(lookups[i].repo,
                                           tokens(lookups[i].repo.Type), FALSE)

\* C8, amended: as stated for the relative references that stay inside the current
\* repository; a relative reference that leaves the root of a local repository is
\* looked up with a new local fetcher made for the repository it resolves to.
C8_FetcherOfReferenceInside ==
    \A i \in 2..Len(lookups) :
        /\ (lookups[i].how = ReferenceRelative /\ ~lookups[i].escapes
              /\ ~sameRepoAsEntry(repoInfo, lookups[i].current)) =>
              lookups[i].fetcher = Fetcher(lookups[i].current,
                                           tokens(lookups[i].current.Type), FALSE)
        /\ (lookups[i].how = ReferenceRelative /\ ~lookups[i].escapes
              /\ sameRepoAsEntry(repoInfo, lookups[i].current)) =>
              lookups[i].fetcher = fetcher
        /\ (lookups[i].how = ReferenceRelative /\ lookups[i].escapes) =>
              /\ lookups[i].current.Type = Local
              /\ lookups[i].repo.Type = Local
              /\ ~IsPrefix(lookups[i].current.RootPath,
                           AbsJoin(lookups[i].repo.RootPath, lookups[i].repo.Path))
              /\ lookups[i].fetcher = Fetcher(lookups[i].repo, "", FALSE)
        /\ lookups[i].how = ReferenceRemote =>
              lookups[i].fetcher = Fetcher(lookups[i].repo,
                                           tokens(lookups[i].repo.Type), FALSE)

\* a relative reference was looked up inside a repository that is not the entry
\* repository, one inside the entry repository, and a remote one
C8_Witness ==
    \E i, j, k \in 2..Len(lookups) :
        /\ lookups[i].how = ReferenceRelative
        /\ ~lookups[i].escapes
        /\ ~sameRepoAsEntry(repoInfo, lookups[i].current)
        /\ lookups[j].how = ReferenceRelative
        /\ sameRepoAsEntry(repoInfo, lookups[j].current)
        /\ lookups[k].how = ReferenceRemote

\* C9: in the returned graph every node that is neither an error node nor in a
\* local repository has its id in BaseURLs, with the base URL of the repository
\* whose fetcher served its kustomization or, for a YAML leaf, of the repository
\* of a kustomization that lists it.
C9_BaseURLOfServingRepository ==
    pc = "done" =>
        \A n \in NodeIdx :
            (elements[n].Type # "error" /\ Head(elements[n].ID) # "local") =>
                /\ elements[n].ID \in DOMAIN baseURLs
                /\ IF elements[n].Content.tag = "kust"
                   THEN \E i \in Expansions :
                            /\ lookups[i].id = elements[n].ID
                            /\ baseURLs[elements[n].ID] = lookups[i].fetcher.repo.BaseURL
                   ELSE \E i \in Expansions :
                            /\ HasEdge(elements, lookups[i].id, elements[n].ID)
                            /\ baseURLs[elements[n].ID] = lookups[i].repo.BaseURL

\* C10 as stated: the entry node is an overlay and every edge to a non-error node
\* other than the entry has the type of that node as its edgeType.
C10_TargetTypeIsEdgeType ==
    pc = "done" =>
        /\ NodeOf(elements, EntryID).Type = "overlay"
        /\ \A e \in EdgeIdx :
              (/\ HasNode(elements, elements[e].Target)
               /\ elements[e].Target # EntryID
               /\ NodeOf(elements, elements[e].Target).Type # "error") =>
                  NodeOf(elements, elements[e].Target).Type = elements[e].EdgeType

\* the type of the nodes in a state: overlay for the entry, resource for a YAML
\* leaf, and for another kustomization the list its expanding reference was in
NodeTypes ==
    /\ pc \in {"walking", "done"} => NodeOf(elements, EntryID).Type = "overlay"
    /\ \A e \in EdgeIdx : elements[e].EdgeType \in {"resource", "component"}
    /\ \A n \in NodeIdx :
          elements[n].Type # "error" =>
              IF elements[n].Content.tag = "nil"
              THEN elements[n].Type = "resource"
              ELSE \E i \in Expansions :
                      /\ lookups[i].id = elements[n].ID
                      /\ elements[n].Type =
                            (IF i = 1 THEN "overlay" ELSE lookups[i].list)

\* the edge a step adds together with the kustomization node it creates or
\* upgrades has the type of that node
EdgeOfExpansion ==
    \A e \in (Len(elements) + 1)..Len(elements') :
        (/\ elements'[e].Group = "edges"
         /\ HasNode(elements', elements'[e].Target)
         /\ NodeOf(elements', elements'[e].Target).Content.tag = "kust"
         /\ \/ ~HasNode(elements, elements'[e].Target)
            \/ NodeOf(elements, elements'[e].Target).Type = "error") =>
            NodeOf(elements', elements'[e].Target).Type = elements'[e].EdgeType

\* C10, amended: the entry node is an overlay; a YAML leaf is a resource whichever
\* list names it; any other non-error node has the type of the reference that
\* expanded it (resource through resources or bases, component through components),
\* and the edge that reference adds has that type as its edgeType.
C10_NodeTypeOfExpandingReference ==
    []NodeTypes /\ [][EdgeOfExpansion]_vars

\* a kustomization reached through components is a component behind a component
\* edge, and a YAML file listed under components is a resource behind one
C10_Witness ==
    /\ pc = "done"
    /\ \E e, f \in EdgeIdx :
          /\ elements[e].EdgeType = "component"
          /\ HasNode(elements, elements[e].Target)
          /\ NodeOf(elements, elements[e].Target).Type = "component"
          /\ elements[f].EdgeType = "component"
          /\ HasNode(elements, elements[f].Target)
          /\ NodeOf(elements, elements[f].Target).Type = "resource"

\* the entry at hand is a .yaml/.yml name of the resources or bases list
YAMLEntry == Walking /\ Cur.list = "resource" /\ isYAMLFile(Cur.ref)

YAMLEntryID == buildNodeID(Top.repo, Join(Top.path, Cur.ref))

\* resource nodes without content: the nodes made for .yaml/.yml entries
LeafIDs ==
    {elements[i].ID : i \in {j \in NodeIdx : /\ elements[j].Type = "resource"
                                             /\ elements[j].Content = NoContent}}

\* the step that handles a .yaml/.yml entry of resources or bases
YAMLEntryStep ==
    YAMLEntry =>
        /\ HasNode(elements', YAMLEntryID)
        /\ NodeOf(elements', YAMLEntryID).Type = "resource"
        /\ NodeOf(elements', YAMLEntryID).Content = NoContent
        /\ Cardinality({i \in 1..Len(elements') :
                           /\ elements'[i].Group = "edges"
                           /\ elements'[i].Source = Top.nodeID
                           /\ elements'[i].Target = YAMLEntryID}) = 1
        /\ \A i \in 1..Len(elements') :
              (/\ elements'[i].Group = "edges"
               /\ elements'[i].Source = Top.nodeID
               /\ elements'[i].Target = YAMLEntryID) => elements'[i].EdgeType = "resource"
        /\ lookups' = lookups
        /\ docs' = docs
        /\ visitedURLs' = visitedURLs
        /\ stack' = NextItem

\* no node made for a .yaml/.yml entry is visited, looked up or expanded
LeavesNeverExpanded ==
    \A id \in LeafIDs :
        /\ id \notin visitedURLs
        /\ \A i \in 1..Len(lookups) : lookups[i].id # id
        /\ \A i \in 1..Len(stack) : stack[i].nodeID # id

\* C11: a resources or bases entry whose name ends in .yaml or .yml, in any letter
\* case, gives a node of type resource without content and one edge of type resource
\* from the parent; nothing is fetched for it, its id is not added to the visited
\* set and it is never expanded
C11_YAMLEntryIsLeaf == []LeavesNeverExpanded /\ [][YAMLEntryStep]_vars

\* an upper-case .YML entry of a bases list has become a leaf under its parent
C11_Witness ==
    \E i \in NodeIdx :
        /\ elements[i].Type = "resource"
        /\ elements[i].Content = NoContent
        /\ Last(elements[i].Path) = "X.YML"
        /\ elements[i].ID \notin visitedURLs
        /\ \E j \in EdgeIdx : /\ elements[j].Target = elements[i].ID
                              /\ elements[j].EdgeType = "resource"

\* the elements appended by the step
Appended == (Len(elements) + 1)..Len(elements')

\* every element stays at its index, unchanged, or is an error node whose data a
\* concrete node of the same id replaces at that index
ElementsKeepTheirIndex ==
    /\ Len(elements') >= Len(elements)
    /\ \A i \in 1..Len(elements) :
          \/ elements'[i] = elements[i]
          \/ /\ elements[i].Group = "nodes"
             /\ elements[i].Type = "error"
             /\ elements'[i].Group = "nodes"
             /\ elements'[i].ID = elements[i].ID
             /\ elements'[i].Type \in ConcreteTypes

\* what is appended belongs to the reference at hand of the innermost
\* processKustomization: an edge from its node, or the node that edge leads to
AppendedInVisitOrder ==
    \A i \in Appended :
        \/ pc = "init" /\ elements'[i].Group = "nodes" /\ elements'[i].ID = EntryID
        \/ /\ Walking
           /\ elements'[i].Group = "edges"
           /\ elements'[i].Source = Top.nodeID
           /\ elements'[i].EdgeType = Cur.list
        \/ /\ Walking
           /\ elements'[i].Group = "nodes"
           /\ HasEdge(elements', Top.nodeID, elements'[i].ID)

\* among the edges out of one node, those of resources and bases come before
\* those of components
ResourcesBeforeComponents ==
    \A i, j \in EdgeIdx :
        (/\ elements[i].Source = elements[j].Source
         /\ elements[i].EdgeType = "component"
         /\ elements[j].EdgeType = "resource") => j < i

\* C12: graph.Elements changes only by appending at its end, in the order of the
\* depth-first visit (resources, bases, then components of the node at hand); no
\* element is removed or moves, and the upgrade of an error node replaces the data
\* at the index the error node was appended at
C12_ElementsAppendOnly ==
    /\ []ResourcesBeforeComponents
    /\ [][ElementsKeepTheirIndex /\ AppendedInVisitOrder]_vars

\* an error node was upgraded where it stood: a concrete node expanded after a
\* failed lookup of its id stands before every edge that leads to it
C12_Witness ==
    \E i, j \in 2..Len(lookups) :
        /\ i < j
        /\ lookups[i].id = lookups[j].id
        /\ lookups[i].status = "notfound"
        /\ lookups[j].expanded
        /\ HasNode(elements, lookups[j].id)
        /\ NodeOf(elements, lookups[j].id).Type \in ConcreteTypes
        /\ \A e \in EdgeIdx :
              elements[e].Target = lookups[j].id => NodeIndex(elements, lookups[j].id) < e

(***************************************************************************)
(* Host validation (package validation).                                   *)
(*                                                                         *)
(* A host is one string.  What the library calls answer for the hosts of   *)
(* the model's universe is tabulated.                                      *)
(***************************************************************************)
\* h[:idx] for idx = strings.Index(h, ":") when idx > 0, else h
BeforeColon(h) ==
    CASE h = "fe80::1" -> "fe80"
      [] h = "gitlab.example.com:8443" -> "gitlab.example.com"
      [] OTHER -> h

\* net.ParseIP and the address class the ip.Is... methods answer; "name" when
\* the host is no IP literal
ParseIP(h) ==
    CASE h = "127.0.0.1" -> "loopback"
      [] h = "::1" -> "loopback"
      [] h = "192.168.1.1" -> "private"
      [] h = "169.254.1.1" -> "linklocal"
      [] h = "fe80::1" -> "linklocal"
      [] OTHER -> "name"

\* strings.HasSuffix(h, suffix) for the suffixes rejectPrivateOrReservedHost asks
HasSuffix(h, suffix) ==
    \/ suffix = ".localhost" /\ h \in {"dev.localhost"}
    \/ suffix = ".local" /\ h \in {"printer.local"}

\* rejectPrivateOrReservedHost without the test of private addresses
rejectReservedHost(host) ==
    IF ParseIP(BeforeColon(host)) # "name"
    THEN ParseIP(BeforeColon(host)) \notin {"loopback", "linklocal"}
    ELSE ~ \/ ToLower(BeforeColon(host)) = "localhost"
           \/ HasSuffix(ToLower(BeforeColon(host)), ".localhost")
           \/ HasSuffix(ToLower(BeforeColon(host)), ".local")
           \/ ToLower(BeforeColon(host)) = "internal"

rejectPrivateOrReservedHost(host) ==
    IF ParseIP(BeforeColon(host)) # "name"
    THEN ParseIP(BeforeColon(host)) \notin {"loopback", "private", "linklocal"}
    ELSE ~ \/ ToLower(BeforeColon(host)) = "localhost"
           \/ HasSuffix(ToLower(BeforeColon(host)), ".localhost")
           \/ HasSuffix(ToLower(BeforeColon(host)), ".local")
           \/ ToLower(BeforeColon(host)) = "internal"

\* ValidateHost: TRUE when the host is accepted (the error is nil)
ValidateHost(host) ==
    /\ ToLower(host) # ""
    /\ rejectPrivateOrReservedHost(BeforeColon(ToLower(host)))

(***************************************************************************)
(* CA collector (package cacert).                                          *)
(*                                                                         *)
(* A base URL is <<scheme, host as written>> with an optional third token, *)
(* the port; "" is <<>>.  A certificate is known by its DER bytes, one     *)
(* string; a PEM text is the sequence of its blocks.  Time is counted in   *)
(* units of twelve hours.                                                  *)
(***************************************************************************)
\* latest time the clock reaches
MaxTime == 2

DefaultTTL == 2

\* the ttl values NewCollector is called with
RequestedTTLs == {0, 1}

\* the concurrent CollectAndAttach calls on the one Collector
Callers == {"c1", "c2"}

NewCollector(t) == IF t <= 0 THEN DefaultTTL ELSE t

\* url.Parse(baseURL) succeeds
URLParses(baseURL) == ~(Len(baseURL) >= 2 /\ baseURL[2] = "bad host")

\* url.Parse(baseURL).Hostname(): the host without brackets and port
Hostname(baseURL) ==
    IF Len(baseURL) < 2 THEN ""
    ELSE CASE baseURL[2] = "[fe80::1]" -> "fe80::1"
           [] baseURL[2] = "[::1]" -> "::1"
           [] OTHER -> baseURL[2]

\* resolveTLSHost: ok is FALSE when an error is returned
resolveTLSHost(baseURL) ==
    IF ~URLParses(baseURL) THEN [ok |-> FALSE, host |-> ""]
    ELSE IF ToLower(Hostname(baseURL)) = "" THEN [ok |-> TRUE, host |-> ""]
    ELSE IF ToLower(Hostname(baseURL)) = "github.com"
    THEN [ok |-> TRUE, host |-> "api.github.com"]
    ELSE [ok |-> TRUE, host |-> ToLower(Hostname(baseURL))]

\* the strings of the universe in the order sort.Strings puts them
HostsAscending ==
    << "", "127.0.0.1", "169.254.1.1", "192.168.1.1", "::1", "api.github.com",
       "dev.localhost", "fe80::1", "github.com", "gitlab.example.com",
       "gitlab.other.com", "internal", "localhost", "printer.local" >>

sortStrings(set) == SelectSeq(HostsAscending, LAMBDA h : h \in set)

Graph(isNil, urls) ==
    [isNil |-> isNil, BaseURLs |-> urls,
     Elements |-> IF isNil THEN <<>> ELSE <<"overlay", "edge", "resource">>,
     CABundle |-> <<>>, CABundleExpires |-> 0, attached |-> FALSE]

\* the hosts seen while ranging over BaseURLs
seenHosts(g) ==
    {resolveTLSHost(g.BaseURLs[n]).host :
        n \in {k \in DOMAIN g.BaseURLs : /\ g.BaseURLs[k] # <<>>
                                         /\ resolveTLSHost(g.BaseURLs[k]).ok}}

uniqueHostsFromGraph(g) ==
    IF g.isNil THEN <<>> ELSE sortStrings(seenHosts(g))

\* the graphs CollectAndAttach is called with
Graphs ==
    { Graph(TRUE, <<>>),
      Graph(FALSE, <<>>),
      Graph(FALSE, ("n1" :> <<"https://", "gitlab.example.com">>)
                   @@ ("n2" :> <<"https://", "github.com">>)
                   @@ ("n3" :> <<"https://", "GitLab.Example.com", ":8443">>)),
      Graph(FALSE, ("n1" :> <<"https://", "gitlab.other.com">>)
                   @@ ("n2" :> <<>>)
                   @@ ("n3" :> <<"https://", "localhost">>)
                   @@ ("n4" :> <<"https://", "gitlab.example.com">>)),
      Graph(FALSE, ("n1" :> <<"https://", "192.168.1.1">>)
                   @@ ("n2" :> <<"https://", "printer.local">>)
                   @@ ("n3" :> <<"https://", "[fe80::1]">>)
                   @@ ("n4" :> <<"https://", "bad host">>)),
      Graph(FALSE, ("n1" :> <<"https://", "127.0.0.1">>)
                   @@ ("n2" :> <<"https://", "internal">>)
                   @@ ("n3" :> <<"https://", "dev.localhost">>)
                   @@ ("n4" :> <<"https://", "169.254.1.1">>)
                   @@ ("n5" :> <<"https://", "[::1]">>)),
      Graph(FALSE, ("n1" :> <<"https://">>)
                   @@ ("n2" :> <<"https://", "github.com">>)) }

\* pem.Encode of one certificate
Block(der) == [Type |-> "CERTIFICATE", Bytes |-> der]

Certificate(der) == [Raw |-> der]

\* tls.ConnectionState of a verified handshake
ConnectionState(verified, peer) == [VerifiedChains |-> verified, PeerCertificates |-> peer]

\* the connection states a handshake with the host may end in; none when the
\* host is never reached or never trusted
Handshakes(host) ==
    CASE host = "api.github.com" ->
            { ConnectionState(<< <<"gh-leaf", "ca-x", "root-r">>,
                                 <<"gh-leaf", "ca-x", "root-s">> >>,
                              <<"gh-leaf", "ca-x">>) }
      [] host = "gitlab.example.com" ->
            { ConnectionState(<< <<"gl-leaf", "ca-x", "root-r">> >>, <<"gl-leaf", "ca-x">>),
              ConnectionState(<< <<"gl-leaf-2", "ca-x", "root-r">> >>, <<"gl-leaf-2", "ca-x">>) }
      [] host = "gitlab.other.com" ->
            { ConnectionState(<< <<"go-leaf", "root-s">> >>, <<"go-leaf">>) }
      [] OTHER -> {}

RECURSIVE Flatten(_)
Flatten(chains) ==
    IF chains = <<>> THEN <<>> ELSE Head(chains) \o Flatten(Tail(chains))

\* fetchCertsViaTLS after a handshake that ended in state: the PEM text
fetchCertsViaTLS(state) ==
    LET chains == IF Len(state.VerifiedChains) = 0
                  THEN <<state.PeerCertificates>>
                  ELSE state.VerifiedChains
    IN  [i \in 1..Len(Flatten(chains)) |-> Block(Flatten(chains)[i])]

\* parsePEMCerts: the certificates of the CERTIFICATE blocks
parsePEMCerts(pemData) ==
    [i \in 1..Len(SelectSeq(pemData, LAMBDA b : b.Type = "CERTIFICATE")) |->
        Certificate(SelectSeq(pemData, LAMBDA b : b.Type = "CERTIFICATE")[i].Bytes)]

\* certFingerprint: the SHA-256 of the DER bytes, taken as free of collisions
certFingerprint(cert) == <<"sha256", cert.Raw>>

\* the loop over certs with seenFingerprint never consulted
RECURSIVE addAll(_, _, _)
addAll(certs, seen, unique) ==
    IF certs = <<>> THEN [seenFingerprint |-> seen, uniqueCerts |-> unique]
    ELSE addAll(Tail(certs), seen \cup {certFingerprint(Head(certs))},
                Append(unique, Head(certs)))

\* the loop over certs at the end of one host's turn: the certificates not seen
\* before are appended
RECURSIVE addUnseen(_, _, _)
addUnseen(certs, seen, unique) ==
    IF certs = <<>> THEN [seenFingerprint |-> seen, uniqueCerts |-> unique]
    ELSE IF certFingerprint(Head(certs)) \in seen
    THEN addUnseen(Tail(certs), seen, unique)
    ELSE addUnseen(Tail(certs), seen \cup {certFingerprint(Head(certs))},
                   Append(unique, Head(certs)))

\* the bundle written to graph.CABundle
encodeBundle(uniqueCerts) == [i \in 1..Len(uniqueCerts) |-> Block(uniqueCerts[i].Raw)]

cacheEntry(pemBlock, expiresAt) == [pem |-> pemBlock, expiresAt |-> expiresAt]

NoPEM == <<>>

\* one CollectAndAttach call: its position, its locals (hosts, the index of the
\* host at hand, seenFingerprint, uniqueCerts, pemBlock), and what it has done:
\* the hosts ValidateHost accepted (admitted), those it consulted the cache or
\* dialed for (asked, dialed), the host and PEM text of its latest dial (own) and
\* cache hit (hit), the PEM text got per host (got), the hosts it skipped (skipped)
Call(hosts) ==
    [pc |-> IF hosts = <<>> THEN "done" ELSE "host", hosts |-> hosts, idx |-> 1,
     seenFingerprint |-> {}, uniqueCerts |-> <<>>, pemBlock |-> NoPEM,
     admitted |-> {}, asked |-> {}, dialed |-> {}, own |-> <<>>, hit |-> <<>>,
     got |-> <<>>, skipped |-> {}]

Idle == [Call(<<>>) EXCEPT !.pc = "start"]

At(c, where) == collect[c].pc = where

Host(c) == collect[c].hosts[collect[c].idx]

\* the loop goes on to the next host, or ends
NextHost(call) ==
    IF call.idx < Len(call.hosts)
    THEN [call EXCEPT !.idx = @ + 1, !.pc = "host", !.pemBlock = NoPEM]
    ELSE [call EXCEPT !.pc = "attach", !.pemBlock = NoPEM]

\* `return` in the place of `continue`: the call ends at the host that failed
SkipRest(call) == [call EXCEPT !.skipped = @ \cup {call.hosts[call.idx]}, !.pc = "done"]

\* `continue`: the host at hand is skipped
Skip(call) == NextHost([call EXCEPT !.skipped = @ \cup {call.hosts[call.idx]}])

CertInit ==
    /\ NoParser
    /\ NoServer
    /\ NoAnalyze
    /\ ttl \in {NewCollector(t) : t \in RequestedTTLs}
    /\ cache = <<>>
    /\ mu = [readers |-> {}, writer |-> {}]
    /\ clock = 0
    /\ graph \in [Callers -> Graphs]
    /\ collect = [c \in Callers |-> Idle]

\* c.mu.RUnlock() deferred to the return of getPEMForHost
RUnlockDeferred(m, c) == m

RUnlock(m, c) == [m EXCEPT !.readers = @ \ {c}]

\* CollectAndAttach: hosts := c.uniqueHostsFromGraph(graph), and the return when
\* there is none
HostsOfGraph ==
    /\ \E c \in Callers :
          /\ At(c, "start")
          /\ collect' = [collect EXCEPT ![c] = Call(uniqueHostsFromGraph(graph[c]))]
    /\ UNCHANGED <<ttl, cache, mu, clock, graph>>
    /\ UNCHANGED beyondCert

\* ValidateHost answers an error: the host is skipped
RejectHost ==
    /\ \E c \in Callers :
          /\ At(c, "host")
          /\ ~ValidateHost(Host(c))
          /\ collect' = [collect EXCEPT ![c] = Skip(@)]
    /\ UNCHANGED <<ttl, cache, mu, clock, graph>>
    /\ UNCHANGED beyondCert

\* ValidateHost accepts the host: getPEMForHost is called
AdmitHost ==
    /\ \E c \in Callers :
          /\ At(c, "host")
          /\ ValidateHost(Host(c))
          /\ collect' = [collect EXCEPT ![c].pc = "rlock",
                                        ![c].admitted = @ \cup {Host(c)}]
    /\ UNCHANGED <<ttl, cache, mu, clock, graph>>
    /\ UNCHANGED beyondCert

\* getPEMForHost: c.mu.RLock()
RLock ==
    /\ \E c \in Callers :
          /\ At(c, "rlock")
          /\ mu.writer = {}
          /\ mu' = [mu EXCEPT !.readers = @ \cup {c}]
          /\ collect' = [collect EXCEPT ![c].pc = "read"]
    /\ UNCHANGED <<ttl, cache, clock, graph>>
    /\ UNCHANGED beyondCert

\* an entry that is returned up to and at its expiry time
FreshAtExpiry(host) == host \in DOMAIN cache /\ clock <= cache[host].expiresAt

\* the entry is there and time.Now().Before(ent.expiresAt)
Fresh(host) == host \in DOMAIN cache /\ clock < cache[host].expiresAt

\* getPEMForHost: the entry is there and not expired; it is returned
CacheHit ==
    /\ \E c \in Callers :
          /\ At(c, "read")
          /\ Fresh(Host(c))
          /\ mu' = RUnlock(mu, c)
          /\ collect' = [collect EXCEPT ![c].pc = "certs",
                                        ![c].pemBlock = cache[Host(c)].pem,
                                        ![c].hit = <<Host(c), cache[Host(c)].pem>>,
                                        ![c].asked = @ \cup {Host(c)}]
    /\ UNCHANGED <<ttl, cache, clock, graph>>
    /\ UNCHANGED beyondCert

\* getPEMForHost: no entry, or an expired one
CacheMiss ==
    /\ \E c \in Callers :
          /\ At(c, "read")
          /\ ~Fresh(Host(c))
          /\ mu' = RUnlock(mu, c)
          /\ collect' = [collect EXCEPT ![c].pc = "dial",
                                        ![c].asked = @ \cup {Host(c)}]
    /\ UNCHANGED <<ttl, cache, clock, graph>>
    /\ UNCHANGED beyondCert

\* fetchCertsViaTLS answers an error: getPEMForHost returns it, the host is skipped
DialFails ==
    /\ \E c \in Callers :
          /\ At(c, "dial")
          /\ collect' = [collect EXCEPT ![c] = Skip([@ EXCEPT !.dialed = @ \cup {Host(c)}])]
    /\ UNCHANGED <<ttl, cache, mu, clock, graph>>
    /\ UNCHANGED beyondCert

\* fetchCertsViaTLS answers the PEM text of the chain the host presented
Dial ==
    /\ \E c \in Callers :
          /\ At(c, "dial")
          /\ \E state \in Handshakes(Host(c)) :
                collect' = [collect EXCEPT ![c].pc = "lock",
                                           ![c].pemBlock = fetchCertsViaTLS(state),
                                           ![c].own = <<Host(c), fetchCertsViaTLS(state)>>,
                                           ![c].dialed = @ \cup {Host(c)}]
    /\ UNCHANGED <<ttl, cache, mu, clock, graph>>
    /\ UNCHANGED beyondCert

\* getPEMForHost: c.mu.Lock()
Lock ==
    /\ \E c \in Callers :
          /\ At(c, "lock")
          /\ mu.readers = {}
          /\ mu.writer = {}
          /\ mu' = [mu EXCEPT !.writer = {c}]
          /\ collect' = [collect EXCEPT ![c].pc = "store"]
    /\ UNCHANGED <<ttl, cache, clock, graph>>
    /\ UNCHANGED beyondCert

\* getPEMForHost: the entry is written, c.mu.Unlock(), and pemBlock is returned
Store ==
    /\ \E c \in Callers :
          /\ At(c, "store")
          /\ cache' = (Host(c) :> cacheEntry(collect[c].pemBlock, clock + ttl)) @@ cache
          /\ mu' = [mu EXCEPT !.writer = {}]
          /\ collect' = [collect EXCEPT ![c].pc = "certs"]
    /\ UNCHANGED <<ttl, clock, graph>>
    /\ UNCHANGED beyondCert

\* the host's turn after getPEMForHost has answered pemBlock
hostCerts(call, added) ==
    NextHost([call EXCEPT !.seenFingerprint = added.seenFingerprint,
                          !.uniqueCerts = added.uniqueCerts,
                          !.got = (call.hosts[call.idx] :> call.pemBlock) @@ @])

\* CollectAndAttach: the certificates of pemBlock not seen before are kept
AddCerts ==
    /\ \E c \in Callers :
          /\ At(c, "certs")
          /\ collect' = [collect EXCEPT ![c] =
                hostCerts(@, addUnseen(parsePEMCerts(collect[c].pemBlock),
                                       collect[c].seenFingerprint,
                                       collect[c].uniqueCerts))]
    /\ UNCHANGED <<ttl, cache, mu, clock, graph>>
    /\ UNCHANGED beyondCert

\* CollectAndAttach: no certificate was collected; the graph is left as it is
NoCerts ==
    /\ \E c \in Callers :
          /\ At(c, "attach")
          /\ collect[c].uniqueCerts = <<>>
          /\ collect' = [collect EXCEPT ![c].pc = "done"]
    /\ UNCHANGED <<ttl, cache, mu, clock, graph>>
    /\ UNCHANGED beyondCert

\* CollectAndAttach: the bundle and its expiry are set on the graph
Attach ==
    /\ \E c \in Callers :
          /\ At(c, "attach")
          /\ collect[c].uniqueCerts # <<>>
          /\ graph' = [graph EXCEPT ![c].CABundle = encodeBundle(collect[c].uniqueCerts),
                                    ![c].CABundleExpires = clock + ttl,
                                    ![c].attached = TRUE]
          /\ collect' = [collect EXCEPT ![c].pc = "done"]
    /\ UNCHANGED <<ttl, cache, mu, clock>>
    /\ UNCHANGED beyondCert

\* time passes
Tick ==
    /\ clock < MaxTime
    /\ clock' = clock + 1
    /\ UNCHANGED <<ttl, cache, mu, graph, collect>>
    /\ UNCHANGED beyondCert

CertNext ==
    \/ HostsOfGraph
    \/ RejectHost
    \/ AdmitHost
    \/ RLock
    \/ CacheHit
    \/ CacheMiss
    \/ DialFails
    \/ Dial
    \/ Lock
    \/ Store
    \/ AddCerts
    \/ NoCerts
    \/ Attach
    \/ Tick

CertSpec == CertInit /\ [][CertNext]_vars

(***************************************************************************)
(* Properties of the CA collector.                                         *)
(***************************************************************************)
\* the PEM texts a dial of the host can answer
DialResults(host) == {fetchCertsViaTLS(state) : state \in Handshakes(host)}

\* a caller that dials holds neither the read lock nor the write lock
DialsUnlocked ==
    \A c \in Callers : At(c, "dial") => c \notin (mu.readers \cup mu.writer)

\* the lock is held by readers or by one writer, by those inside its sections only
LockWellFormed ==
    /\ mu.readers = {} \/ mu.writer = {}
    /\ Cardinality(mu.writer) <= 1
    /\ \A c \in Callers : /\ c \in mu.readers <=> At(c, "read")
                          /\ c \in mu.writer <=> At(c, "store")

\* every entry holds the whole PEM text of one dial of its host
EntriesWellFormed ==
    \A h \in DOMAIN cache :
        /\ cache[h].pem \in DialResults(h)
        /\ cache[h].expiresAt <= clock + ttl

\* what getPEMForHost hands back is the text of the caller's own dial of the host
\* or that of the entry it found
ReturnsOwnDialOrHit ==
    \A c \in Callers :
        At(c, "certs") =>
            \/ collect[c].own = <<Host(c), collect[c].pemBlock>>
            \/ collect[c].hit = <<Host(c), collect[c].pemBlock>>

\* the cache changes only by the write of one caller: the entry of its host
\* becomes the text of its own dial, expiring ttl after the time of the write
CacheWrittenWhole ==
    cache' # cache =>
        \E c \in Callers :
            /\ At(c, "store")
            /\ cache' = (Host(c) :> cacheEntry(collect[c].own[2], clock + ttl)) @@ cache
            /\ collect[c].own[1] = Host(c)
            /\ collect'[c].pemBlock = collect[c].own[2]

\* C13: in every interleaving of getPEMForHost calls on one Collector the TLS dial
\* runs with no cache lock held; callers that miss on the same host may both dial,
\* and the cache is left with one well-formed entry for the host (the whole PEM
\* text of one dial, expiring TTL after that write); each caller returns the PEM
\* text of its own dial or of its cache hit
C13_DialUnlockedEntryWhole ==
    /\ [](DialsUnlocked /\ LockWellFormed /\ EntriesWellFormed /\ ReturnsOwnDialOrHit)
    /\ [][CacheWrittenWhole]_vars

\* both callers missed on one host and dialed it, with different answers; both
\* have written, the entry is the answer of one of them, each has kept its own
C13_Witness ==
    \E h \in DOMAIN cache :
        /\ \A c \in Callers : /\ h \in collect[c].dialed
                              /\ collect[c].pc \in {"certs", "attach", "done"}
                              /\ h \in DOMAIN collect[c].got \/ At(c, "certs")
                              /\ collect[c].own # <<>>
                              /\ collect[c].own[1] = h
        /\ collect["c1"].own # collect["c2"].own
        /\ cache[h].pem \in {collect[c].own[2] : c \in Callers}

\* how often the certificate of these DER bytes stands in the PEM text
Occurrences(pemData, der) ==
    Cardinality({i \in 1..Len(pemData) : certFingerprint(Certificate(pemData[i].Bytes))
                                            = certFingerprint(Certificate(der))})

\* the DER bytes of the certificates the PEM text holds
DERsOf(pemData) == {pemData[i].Bytes : i \in 1..Len(pemData)}

\* C14: in the bundle CollectAndAttach attaches, every certificate, told by the
\* SHA-256 fingerprint of its DER bytes, stands exactly once: each certificate of
\* each PEM text a host gave, and nothing twice, also when hosts present the same
\* certificate or the chains of one host repeat it
C14_BundleCertificatesOnce ==
    \A c \in Callers :
        graph[c].attached =>
            /\ \A i \in 1..Len(graph[c].CABundle) :
                  Occurrences(graph[c].CABundle, graph[c].CABundle[i].Bytes) = 1
            /\ \A h \in DOMAIN collect[c].got :
                  \A der \in DERsOf(collect[c].got[h]) :
                      Occurrences(graph[c].CABundle, der) = 1

\* a bundle from two hosts that share an intermediate, one of them with two chains
\* that repeat its leaf
C14_Witness ==
    \E c \in Callers :
        /\ graph[c].attached
        /\ \E h1, h2 \in DOMAIN collect[c].got :
              /\ h1 # h2
              /\ "ca-x" \in DERsOf(collect[c].got[h1]) \cap DERsOf(collect[c].got[h2])
              /\ Occurrences(collect[c].got[h1], "gh-leaf") = 2

\* the TLS hosts the non-empty values of BaseURLs name: the host of each value that
\* is a URL with a host, in lower case and with api.github.com for github.com
NamedHosts(g) ==
    {IF ToLower(Hostname(g.BaseURLs[n])) = "github.com"
     THEN "api.github.com"
     ELSE ToLower(Hostname(g.BaseURLs[n])) :
        n \in {k \in DOMAIN g.BaseURLs : /\ g.BaseURLs[k] # <<>>
                                         /\ URLParses(g.BaseURLs[k])
                                         /\ Hostname(g.BaseURLs[k]) # ""}}

Ascending(hosts) ==
    \A i, j \in 1..Len(hosts) :
        i < j => IndexOf(hosts[i], HostsAscending) < IndexOf(hosts[j], HostsAscending)

\* C15: uniqueHostsFromGraph returns every TLS host named by a non-empty value of
\* graph.BaseURLs exactly once, in ascending order, with api.github.com for
\* github.com, and the empty list for a nil graph or empty BaseURLs
C15_HostsOfBaseURLs ==
    \A c \in Callers :
        ~At(c, "start") =>
            /\ {collect[c].hosts[i] : i \in 1..Len(collect[c].hosts)} = NamedHosts(graph[c])
            /\ Ascending(collect[c].hosts)
            /\ (graph[c].isNil \/ DOMAIN graph[c].BaseURLs = {}) => collect[c].hosts = <<>>

\* the hosts of the call
HostsOf(c) == {collect[c].hosts[i] : i \in 1..Len(collect[c].hosts)}

\* a step that skips the host at hand goes on with the next host, or to the end of
\* the loop after the last, with what was collected so far
SkipGoesOn ==
    \A c \in Callers :
        collect'[c].skipped # collect[c].skipped =>
            /\ collect'[c].skipped = collect[c].skipped \cup {Host(c)}
            /\ collect'[c].hosts = collect[c].hosts
            /\ collect'[c].uniqueCerts = collect[c].uniqueCerts
            /\ collect'[c].seenFingerprint = collect[c].seenFingerprint
            /\ IF collect[c].idx < Len(collect[c].hosts)
               THEN collect'[c].pc = "host" /\ collect'[c].idx = collect[c].idx + 1
               ELSE collect'[c].pc = "attach"
            /\ graph' = graph

\* CollectAndAttach touches nothing of the graph but the bundle and its expiry
GraphKept ==
    \A c \in Callers :
        /\ graph'[c].Elements = graph[c].Elements
        /\ graph'[c].BaseURLs = graph[c].BaseURLs
        /\ graph'[c].isNil = graph[c].isNil

\* a call that has returned went through all its hosts, and its bundle holds the
\* certificates of the hosts that succeeded, and those only
BundleOfSucceeded ==
    \A c \in Callers :
        At(c, "done") =>
            /\ HostsOf(c) = collect[c].skipped \cup DOMAIN collect[c].got
            /\ collect[c].skipped \cap DOMAIN collect[c].got = {}
            /\ DERsOf(graph[c].CABundle)
                  = UNION {DERsOf(collect[c].got[h]) : h \in DOMAIN collect[c].got}
            /\ graph[c].attached <=> DOMAIN collect[c].got # {}

\* C16: when the validation or the dial of one host fails, CollectAndAttach skips
\* that host and goes on with the remaining hosts; the bundle is built from the
\* hosts that succeeded, and the graph's elements and BaseURLs are left unchanged
C16_FailedHostSkipped == []BundleOfSucceeded /\ [][SkipGoesOn /\ GraphKept]_vars

\* returned calls with a bundle: in one a host that failed validation, in one a
\* host whose dial failed, came before a host that succeeded
C16_Witness ==
    /\ \E c \in Callers :
          /\ At(c, "done") /\ graph[c].attached
          /\ \E i, j \in 1..Len(collect[c].hosts) :
                /\ i < j
                /\ collect[c].hosts[i] \in collect[c].skipped \ collect[c].admitted
                /\ collect[c].hosts[j] \in DOMAIN collect[c].got
    /\ \E c \in Callers :
          /\ At(c, "done") /\ graph[c].attached
          /\ \E i, j \in 1..Len(collect[c].hosts) :
                /\ i < j
                /\ collect[c].hosts[i] \in collect[c].skipped \cap collect[c].dialed
                /\ collect[c].hosts[j] \in DOMAIN collect[c].got

\* hosts of the universe that are loopback, private or link-local addresses,
\* localhost, names under .localhost or .local, internal, or empty
RejectedHosts ==
    {"", "127.0.0.1", "::1", "192.168.1.1", "169.254.1.1", "localhost",
     "dev.localhost", "printer.local", "internal"}

\* the caller is inside getPEMForHost
InGetPEM(c) == collect[c].pc \in {"rlock", "read", "dial", "lock", "store"}

MaxSaves == 2

StoredGraph(id, els, urls) == [ID |-> id, Elements |-> els, BaseURLs |-> urls]

\* SaveGraph that stores whatever the ID is
SaveGraphUnchecked(store, g) == [err |-> FALSE, graphs |-> (g.ID :> g) @@ store]

\* SaveGraph: the error returned and the map afterwards
SaveGraph(store, g) ==
    IF g.ID = ""
    THEN [err |-> TRUE, graphs |-> store]
    ELSE [err |-> FALSE, graphs |-> (g.ID :> g) @@ store]

NoGraph == StoredGraph("", <<>>, <<>>)

\* GetGraph: found is FALSE when the error is returned
GetGraph(store, id) ==
    IF id \in DOMAIN store
    THEN [found |-> TRUE, graph |-> store[id]]
    ELSE [found |-> FALSE, graph |-> NoGraph]

NodeDetails(data, parents, children) ==
    [ID |-> data.ID, Label |-> data.Label, Type |-> data.Type, Path |-> data.Path,
     Content |-> data.Content, Parents |-> parents, Children |-> children]

NoDetails == [ID |-> <<>>, Label |-> <<>>, Type |-> "", Path |-> <<>>,
              Content |-> NoContent, Parents |-> <<>>, Children |-> <<>>]

\* the Source (or Target) of the edges, in order
EdgeEnds(edges, end) ==
    [i \in 1..Len(edges) |-> IF end = "Source" THEN edges[i].Source ELSE edges[i].Target]

\* GetNode that takes the parents for the children and the children for the parents
GetNodeSwapped(store, graphID, nodeID) ==
    IF graphID \notin DOMAIN store THEN [found |-> FALSE, details |-> NoDetails]
    ELSE IF ~HasNode(store[graphID].Elements, nodeID)
    THEN [found |-> FALSE, details |-> NoDetails]
    ELSE [found |-> TRUE,
          details |-> NodeDetails(
              store[graphID].Elements[NodeIndex(store[graphID].Elements, nodeID)],
              EdgeEnds(SelectSeq(store[graphID].Elements,
                                 LAMBDA e : e.Group = "edges" /\ e.Source = nodeID),
                       "Target"),
              EdgeEnds(SelectSeq(store[graphID].Elements,
                                 LAMBDA e : e.Group = "edges" /\ e.Target = nodeID),
                       "Source"))]

\* GetNode: the first node of that id with the sources of the edges to it and
\* the targets of the edges from it; found is FALSE when an error is returned
GetNode(store, graphID, nodeID) ==
    IF graphID \notin DOMAIN store THEN [found |-> FALSE, details |-> NoDetails]
    ELSE IF ~HasNode(store[graphID].Elements, nodeID)
    THEN [found |-> FALSE, details |-> NoDetails]
    ELSE [found |-> TRUE,
          details |-> NodeDetails(
              store[graphID].Elements[NodeIndex(store[graphID].Elements, nodeID)],
              EdgeEnds(SelectSeq(store[graphID].Elements,
                                 LAMBDA e : e.Group = "edges" /\ e.Target = nodeID),
                       "Source"),
              EdgeEnds(SelectSeq(store[graphID].Elements,
                                 LAMBDA e : e.Group = "edges" /\ e.Source = nodeID),
                       "Target"))]

\* the nodes of the graphs that are stored
RepoOR == RepositoryInfo(GitHub, <<"o">>, "r", "main", <<"https://", "github.com">>,
                         <<>>, <<>>)

IDOverlay == buildNodeID(RepoOR, <<"overlay">>)

IDBase == buildNodeID(RepoOR, <<"base">>)

IDComponent == buildNodeID(RepoOR, <<"comp">>)

IDMissing == buildNodeID(RepoOR, <<"missing">>)

IDBadRef == errorNodeID(<<"bad ref">>)

IDUnknown == buildNodeID(RepoOR, <<"nowhere">>)

\* an overlay with a base, a component and two references that failed
ElementsFull ==
    << NodeElement(IDOverlay, "overlay", <<"overlay">>, NoContent),
       EdgeElement(IDOverlay, IDBase, "resource"),
       NodeElement(IDBase, "resource", <<"base">>, NoContent),
       EdgeElement(IDOverlay, IDComponent, "component"),
       NodeElement(IDComponent, "component", <<"comp">>, NoContent),
       NodeElement(IDMissing, "error", <<"missing">>, ErrorContent(<<"File not found">>)),
       EdgeElement(IDOverlay, IDMissing, "resource"),
       NodeElement(IDBadRef, "error", <<"bad ref">>, ErrorContent(<<"Failed to parse">>)),
       EdgeElement(IDOverlay, IDBadRef, "resource") >>

\* the same overlay with what was its component as its only resource
ElementsSmall ==
    << NodeElement(IDOverlay, "overlay", <<"overlay">>, NoContent),
       EdgeElement(IDOverlay, IDComponent, "resource"),
       NodeElement(IDComponent, "resource", <<"comp">>, NoContent) >>

URLsOf(els) ==
    [id \in {els[i].ID : i \in {j \in 1..Len(els) : els[j].Group = "nodes"}} \ {IDBadRef}
        |-> <<"https://", "github.com">>]

\* the ids graphs are saved and asked for with; the first two are UUIDs
GraphIDs == {"uuid-1", "uuid-2", "g1", ""}

\* the graphs SaveGraph is called with
SavedGraphs ==
    {StoredGraph(id, els, URLsOf(els)) :
        id \in GraphIDs \ {"uuid-2"}, els \in {ElementsFull, ElementsSmall}}

\* the store at rest, no build request
StoreInit ==
    /\ NoParser
    /\ NoCollector
    /\ NoServer
    /\ NoAnalyze

\* a SaveGraph call
Save ==
    /\ Len(saves) < MaxSaves
    /\ \E g \in SavedGraphs :
          /\ graphs' = SaveGraph(graphs, g).graphs
          /\ saves' = Append(saves, [graph |-> g, err |-> SaveGraph(graphs, g).err])
          /\ last' = [op |-> "SaveGraph", id |-> g.ID, err |-> SaveGraph(graphs, g).err]
    /\ UNCHANGED <<parsed, tempDirs, build, responses>>
    /\ UNCHANGED beyondServer

\* a GetGraph call
Get ==
    /\ \E id \in GraphIDs :
          last' = [op |-> "GetGraph", id |-> id, found |-> GetGraph(graphs, id).found,
                   graph |-> GetGraph(graphs, id).graph]
    /\ UNCHANGED <<graphs, saves, parsed, tempDirs, build, responses>>
    /\ UNCHANGED beyondServer

\* a GetNode call
Node ==
    /\ \E id \in GraphIDs, nodeID \in {IDOverlay, IDComponent, IDBadRef, IDUnknown} :
          last' = [op |-> "GetNode", id |-> id, nodeID |-> nodeID,
                   found |-> GetNode(graphs, id, nodeID).found,
                   details |-> GetNode(graphs, id, nodeID).details]
    /\ UNCHANGED <<graphs, saves, parsed, tempDirs, build, responses>>
    /\ UNCHANGED beyondServer

StoreNext == Save \/ Get \/ Node

StoreSpec == StoreInit /\ [][StoreNext]_vars

(***************************************************************************)
(* Properties of the store.                                                *)
(***************************************************************************)
\* the SaveGraph calls made with that ID
SavesOf(id) == {i \in 1..Len(saves) : saves[i].graph.ID = id}

\* the graph of the latest SaveGraph call with that ID
LatestSaved(id) == saves[CHOOSE i \in SavesOf(id) : \A j \in SavesOf(id) : j <= i].graph

\* what the store answers for an ID, by what was saved under it
StoreAnswers ==
    \A id \in GraphIDs :
        IF id # "" /\ SavesOf(id) # {}
        THEN /\ GetGraph(graphs, id).found
             /\ GetGraph(graphs, id).graph = LatestSaved(id)
        ELSE /\ ~GetGraph(graphs, id).found
             /\ \A nodeID \in {IDOverlay, IDComponent, IDBadRef, IDUnknown} :
                   ~GetNode(graphs, id, nodeID).found

\* what the latest call returned, by what was saved before it
LastAnswer ==
    /\ last.op = "GetGraph" =>
          /\ last.found <=> (last.id # "" /\ SavesOf(last.id) # {})
          /\ last.found => last.graph = LatestSaved(last.id)
    /\ last.op = "GetNode" =>
          (last.found => last.id # "" /\ SavesOf(last.id) # {})
    /\ last.op = "SaveGraph" => (last.err <=> last.id = "")

\* a SaveGraph call with an empty ID leaves the map as it is
EmptyIDChangesNothing ==
    (saves' # saves /\ Last(saves').graph.ID = "") =>
        /\ Last(saves').err
        /\ graphs' = graphs

\* C20: SaveGraph with an empty ID returns an error and leaves the store unchanged;
\* SaveGraph with a non-empty ID makes its graph the one GetGraph returns for that
\* ID; GetGraph and GetNode for an ID never saved return not-found
C20_SaveThenGet == [](StoreAnswers /\ LastAnswer) /\ [][EmptyIDChangesNothing]_vars

\* a graph was saved, a save with an empty ID was refused after it, and GetGraph
\* has just returned the graph saved
C20_Witness ==
    /\ Len(saves) = 2
    /\ saves[1].graph.ID = "uuid-1" /\ ~saves[1].err
    /\ saves[2].graph.ID = "" /\ saves[2].err
    /\ DOMAIN graphs = {"uuid-1"}
    /\ last.op = "GetGraph" /\ last.id = "uuid-1"
    /\ last.found /\ last.graph = saves[1].graph

\* the positions of the edges of a graph that end (Target) or start (Source) at
\* the node
EdgesAt(els, nodeID, end) ==
    {i \in 1..Len(els) :
        /\ els[i].Group = "edges"
        /\ (IF end = "Target" THEN els[i].Target ELSE els[i].Source) = nodeID}

\* the k-th smallest of a set of positions
Kth(positions, k) ==
    CHOOSE i \in positions : Cardinality({j \in positions : j <= i}) = k

\* the list is made of the other ends of exactly those edges, in element order
ListsOtherEnds(list, els, nodeID, end) ==
    /\ Len(list) = Cardinality(EdgesAt(els, nodeID, end))
    /\ \A k \in 1..Len(list) :
          list[k] = IF end = "Target"
                    THEN els[Kth(EdgesAt(els, nodeID, end), k)].Source
                    ELSE els[Kth(EdgesAt(els, nodeID, end), k)].Target

\* the graph has a node element with that id
NodePresent(els, nodeID) ==
    \E i \in 1..Len(els) : els[i].Group = "nodes" /\ els[i].ID = nodeID

\* C21: for a stored graph and a node ID present in it, GetNode returns as parents
\* the sources of all edges whose target is the node and as children the targets
\* of all edges whose source is the node, each in element order and nothing
\* else; a node without such edges gets empty lists.
C21_ParentsAndChildren ==
    /\ \A id \in DOMAIN graphs :
          \A nodeID \in {IDOverlay, IDBase, IDComponent, IDMissing, IDBadRef, IDUnknown} :
              NodePresent(graphs[id].Elements, nodeID) =>
                  /\ GetNode(graphs, id, nodeID).found
                  /\ ListsOtherEnds(GetNode(graphs, id, nodeID).details.Parents,
                                    graphs[id].Elements, nodeID, "Target")
                  /\ ListsOtherEnds(GetNode(graphs, id, nodeID).details.Children,
                                    graphs[id].Elements, nodeID, "Source")
    /\ (last.op = "GetNode" /\ last.found) =>
          /\ NodePresent(LatestSaved(last.id).Elements, last.nodeID)
          /\ ListsOtherEnds(last.details.Parents, LatestSaved(last.id).Elements,
                            last.nodeID, "Target")
          /\ ListsOtherEnds(last.details.Children, LatestSaved(last.id).Elements,
                            last.nodeID, "Source")

\* GetNode has answered for the overlay of the full graph: no parent, its four
\* children in element order; the component of the same graph has no children
C21_Witness ==
    /\ last.op = "GetNode" /\ last.found
    /\ last.nodeID = IDOverlay
    /\ LatestSaved(last.id).Elements = ElementsFull
    /\ last.details.Parents = <<>>
    /\ last.details.Children = <<IDBase, IDComponent, IDMissing, IDBadRef>>
    /\ GetNode(graphs, last.id, IDComponent).details.Children = <<>>
    /\ GetNode(graphs, last.id, IDComponent).details.Parents = <<IDOverlay>>

(***************************************************************************)
(* The build endpoint (handleBuildNode) and Builder.Build.                 *)
(*                                                                         *)
(* ParseNodeID is called but not defined in the sources at hand: what it   *)
(* answers for a node id is left open, and is the same answer every time   *)
(* it is asked about that id.                                              *)
(***************************************************************************)
\* number of build requests
MaxRequests == 2

\* uuid.Parse accepts the id
IsUUID(id) == id \in {"uuid-1", "uuid-2"}

\* ValidateGraphID: TRUE when the error is nil
ValidateGraphID(id) == id # "" /\ IsUUID(id)

NodeIDParts(type, path) == [ok |-> TRUE, Type |-> type, Path |-> path]

NoParts == [ok |-> FALSE, Type |-> Unknown, Path |-> <<>>]

\* what ParseNodeID may answer for a node id: an error, or the parts of a id
ParseAnswers ==
    {NoParts, NodeIDParts(GitHub, <<"overlay">>), NodeIDParts(GitLab, <<>>),
     NodeIDParts(Local, <<"overlay">>), NodeIDParts(GitHub, <<"..", "..", "x">>),
     NodeIDParts(GitHub, <<"..", "..", "kustomap-build-10">>)}

\* the answers left for the id, given those made so far
ParseNodeID(nodeID) ==
    IF nodeID \in DOMAIN parsed THEN {parsed[nodeID]} ELSE ParseAnswers

\* the build requests: graph and node id of the URL, whether the node id can be
\* unescaped, whether the body is JSON within the size allowed
BuildRequest(graphID, nodeID, unescapes, bodyOK) ==
    [graphID |-> graphID, nodeID |-> nodeID, unescapes |-> unescapes, bodyOK |-> bodyOK]

BuildRequests ==
    {BuildRequest("uuid-1", n, TRUE, TRUE) :
        n \in {IDOverlay, IDComponent, IDMissing, IDBadRef, IDUnknown}}
    \cup {BuildRequest(g, IDOverlay, TRUE, TRUE) : g \in {"uuid-2", "g1"}}
    \cup {BuildRequest("uuid-1", n, FALSE, TRUE) : n \in {IDOverlay, IDComponent}}
    \cup {BuildRequest("uuid-1", n, TRUE, FALSE) : n \in {IDOverlay, IDBadRef}}

Answer400 == [status |-> 400, build |-> FALSE, nodeType |-> "", baseURL |-> <<>>]

Answer404 == [status |-> 404, build |-> FALSE, nodeType |-> "", baseURL |-> <<>>]

\* handleBuildNode without its test of error nodes
handleBuildNodeErrorsBuilt(store, req, parts) ==
    IF ~ValidateGraphID(req.graphID) THEN Answer400
    ELSE IF ~req.unescapes THEN Answer400
    ELSE IF ~parts.ok THEN Answer400
    ELSE IF ~GetNode(store, req.graphID, req.nodeID).found THEN Answer404
    ELSE IF GetNode(store, req.graphID, req.nodeID).details.Type = "component"
    THEN Answer400
    ELSE IF ~req.bodyOK THEN Answer400
    ELSE IF ~GetGraph(store, req.graphID).found THEN Answer404
    ELSE [status |-> 0, build |-> TRUE,
          nodeType |-> GetNode(store, req.graphID, req.nodeID).details.Type,
          baseURL |-> IF req.nodeID \in DOMAIN GetGraph(store, req.graphID).graph.BaseURLs
                      THEN GetGraph(store, req.graphID).graph.BaseURLs[req.nodeID]
                      ELSE <<>>]

\* handleBuildNode up to the call of Build: the status answered, or build
handleBuildNode(store, req, parts) ==
    IF ~ValidateGraphID(req.graphID) THEN Answer400
    ELSE IF ~req.unescapes THEN Answer400
    ELSE IF ~parts.ok THEN Answer400
    ELSE IF ~GetNode(store, req.graphID, req.nodeID).found THEN Answer404
    ELSE IF GetNode(store, req.graphID, req.nodeID).details.Type = "component"
    THEN Answer400
    ELSE IF GetNode(store, req.graphID, req.nodeID).details.Type = "error"
    THEN Answer400
    ELSE IF ~req.bodyOK THEN Answer400
    ELSE IF ~GetGraph(store, req.graphID).found THEN Answer404
    ELSE [status |-> 0, build |-> TRUE,
          nodeType |-> GetNode(store, req.graphID, req.nodeID).details.Type,
          baseURL |-> IF req.nodeID \in DOMAIN GetGraph(store, req.graphID).graph.BaseURLs
                      THEN GetGraph(store, req.graphID).graph.BaseURLs[req.nodeID]
                      ELSE <<>>]

\* ParseNodeID is reached by the handler
ParseCalled(req) == ValidateGraphID(req.graphID) /\ req.unescapes

Parsed(req, parts) ==
    IF ParseCalled(req) THEN (req.nodeID :> parts) @@ parsed ELSE parsed

NoDir == <<>>

\* a request the handler answers itself: no Builder, no call of Build
Refused(req, parts) ==
    [pc |-> "idle", req |-> req, parts |-> parts, baseURL |-> <<>>, builder |-> FALSE,
     dir |-> NoDir, rootDir |-> "", downloaded |-> FALSE, removal |-> "none",
     err |-> "", yamlOut |-> ""]

\* Build under way for a request: its position, arguments and locals; downloaded
\* says that the archive was asked for, removal what became of the deferred
\* os.RemoveAll ("none" before it has run)
Building(req, parts, baseURL) ==
    [pc |-> "mkdir", req |-> req, parts |-> parts, baseURL |-> baseURL, builder |-> TRUE,
     dir |-> NoDir, rootDir |-> "", downloaded |-> FALSE, removal |-> "none",
     err |-> "", yamlOut |-> ""]

\* os.MkdirTemp("", "kustomap-build-*"): the star becomes a random number, and the
\* name is one that does not exist yet
TempNames == {"kustomap-build-1", "kustomap-build-10"}

MkdirTempNames == {<<"tmp", name>> : name \in TempNames} \ tempDirs

\* a `return "", err` of Build after the defer statement: the deferred function
\* runs next
returns(b, err) == [b EXCEPT !.pc = "deferred", !.err = err]

\* Build's test that buildPath is under dir
buildPath(dir, rootDir, path) ==
    IF path = <<>> THEN AbsJoin(dir, <<rootDir>>) ELSE AbsJoin(dir, <<rootDir>> \o path)

\* one path segment begins with the characters of another
StartsWith(seg, pre) == seg = pre \/ <<seg, pre>> = <<"kustomap-build-10", "kustomap-build-1">>

\* strings.HasPrefix of two absolute paths written with separators, each given as
\* its segments: the segments before the last of the prefix are the same, and
\* the last one is begun
HasPrefix(s, prefix) ==
    /\ Len(prefix) <= Len(s)
    /\ SubSeq(s, 1, Len(prefix) - 1) = Front(prefix)
    /\ StartsWith(s[Len(prefix)], Last(prefix))

\* the stores a build request may meet, as the SaveGraph calls that made them
SaveLogs ==
    { <<>>,
      <<StoredGraph("uuid-1", ElementsFull, URLsOf(ElementsFull))>>,
      <<StoredGraph("uuid-1", ElementsSmall, URLsOf(ElementsSmall)),
        StoredGraph("g1", ElementsFull, URLsOf(ElementsFull))>> }

RECURSIVE StoreOf(_)
StoreOf(log) ==
    IF log = <<>> THEN <<>> ELSE SaveGraph(StoreOf(Front(log)), Last(log)).graphs

BuildInit ==
    /\ NoParser
    /\ NoCollector
    /\ NoAnalyze
    /\ \E log \in SaveLogs :
          /\ saves = [i \in 1..Len(log) |-> [graph |-> log[i], err |-> FALSE]]
          /\ graphs = StoreOf(log)
    /\ last = [op |-> "none"]
    /\ parsed = <<>>
    /\ tempDirs = {}
    /\ build = [pc |-> "idle"]
    /\ responses = <<>>

\* handleBuildNode answers 400 or 404 before any Builder is made; responses holds
\* the status of every answer, build what was done for the latest request
Refuse ==
    /\ build.pc = "idle"
    /\ Len(responses) < MaxRequests
    /\ \E req \in BuildRequests :
          \E parts \in ParseNodeID(req.nodeID) :
              /\ ~handleBuildNode(graphs, req, parts).build
              /\ responses' = Append(responses, handleBuildNode(graphs, req, parts).status)
              /\ build' = Refused(req, parts)
              /\ parsed' = Parsed(req, parts)
    /\ UNCHANGED <<graphs, saves, last, tempDirs>>
    /\ UNCHANGED beyondServer

\* handleBuildNode makes a Builder and calls Build, which parses the node id
Accept ==
    /\ build.pc = "idle"
    /\ Len(responses) < MaxRequests
    /\ \E req \in BuildRequests :
          \E parts \in ParseNodeID(req.nodeID) :
              /\ handleBuildNode(graphs, req, parts).build
              /\ build' = Building(req, parts, handleBuildNode(graphs, req, parts).baseURL)
              /\ parsed' = Parsed(req, parts)
    /\ UNCHANGED <<graphs, saves, last, tempDirs, responses>>
    /\ UNCHANGED beyondServer

\* os.MkdirTemp fails: Build returns before its defer statement
MkdirTempFails ==
    /\ build.pc = "mkdir"
    /\ build' = [build EXCEPT !.pc = "returned", !.err = "create temp dir"]
    /\ UNCHANGED <<graphs, saves, last, parsed, tempDirs, responses>>
    /\ UNCHANGED beyondServer

\* os.MkdirTemp makes the directory; its removal is deferred
MkdirTemp ==
    /\ build.pc = "mkdir"
    /\ \E dir \in MkdirTempNames :
          /\ build' = [build EXCEPT !.pc = "download", !.dir = dir]
          /\ tempDirs' = tempDirs \cup {dir}
    /\ UNCHANGED <<graphs, saves, last, parsed, responses>>
    /\ UNCHANGED beyondServer

\* downloadArchive returns an error: the type has no archive URL, or the request,
\* its status or the writing of the file failed
DownloadFails ==
    /\ build.pc = "download"
    /\ build' = [returns(build, "download archive")
                    EXCEPT !.downloaded = build.parts.Type \in {GitHub, GitLab}]
    /\ UNCHANGED <<graphs, saves, last, parsed, tempDirs, responses>>
    /\ UNCHANGED beyondServer

\* downloadArchive writes the archive into the directory
Download ==
    /\ build.pc = "download"
    /\ build.parts.Type \in {GitHub, GitLab}
    /\ build' = [build EXCEPT !.pc = "extract", !.downloaded = TRUE]
    /\ UNCHANGED <<graphs, saves, last, parsed, tempDirs, responses>>
    /\ UNCHANGED beyondServer

\* extractTarGz returns an error
ExtractFails ==
    /\ build.pc = "extract"
    /\ build' = returns(build, "extract archive")
    /\ UNCHANGED <<graphs, saves, last, parsed, tempDirs, responses>>
    /\ UNCHANGED beyondServer

\* extractTarGz returns the top-level directory of the archive
Extract ==
    /\ build.pc = "extract"
    /\ build' = [build EXCEPT !.pc = "path", !.rootDir = "o-r-sha"]
    /\ UNCHANGED <<graphs, saves, last, parsed, tempDirs, responses>>
    /\ UNCHANGED beyondServer

\* buildPath is not under dir
PathRejected ==
    /\ build.pc = "path"
    /\ ~HasPrefix(buildPath(build.dir, build.rootDir, build.parts.Path), build.dir)
    /\ build' = returns(build, "invalid build path")
    /\ UNCHANGED <<graphs, saves, last, parsed, tempDirs, responses>>
    /\ UNCHANGED beyondServer

\* buildPath is under dir: kustomize is run on it
PathAccepted ==
    /\ build.pc = "path"
    /\ HasPrefix(buildPath(build.dir, build.rootDir, build.parts.Path), build.dir)
    /\ build' = [build EXCEPT !.pc = "kustomize"]
    /\ UNCHANGED <<graphs, saves, last, parsed, tempDirs, responses>>
    /\ UNCHANGED beyondServer

\* k.Run returns an error
KustomizeFails ==
    /\ build.pc = "kustomize"
    /\ build' = returns(build, "kustomize build")
    /\ UNCHANGED <<graphs, saves, last, parsed, tempDirs, responses>>
    /\ UNCHANGED beyondServer

\* k.Run returns the resource map
Kustomize ==
    /\ build.pc = "kustomize"
    /\ build' = [build EXCEPT !.pc = "encode"]
    /\ UNCHANGED <<graphs, saves, last, parsed, tempDirs, responses>>
    /\ UNCHANGED beyondServer

\* resMap.AsYaml returns an error
EncodeFails ==
    /\ build.pc = "encode"
    /\ build' = returns(build, "encode YAML")
    /\ UNCHANGED <<graphs, saves, last, parsed, tempDirs, responses>>
    /\ UNCHANGED beyondServer

\* Build returns the YAML
Encode ==
    /\ build.pc = "encode"
    /\ build' = [returns(build, "") EXCEPT !.yamlOut = "yaml"]
    /\ UNCHANGED <<graphs, saves, last, parsed, tempDirs, responses>>
    /\ UNCHANGED beyondServer

\* the deferred function: os.RemoveAll(dir) removes the directory
RemoveAll ==
    /\ build.pc = "deferred"
    /\ tempDirs' = tempDirs \ {build.dir}
    /\ build' = [build EXCEPT !.pc = "returned", !.removal = "removed"]
    /\ UNCHANGED <<graphs, saves, last, parsed, responses>>
    /\ UNCHANGED beyondServer

\* the deferred function: os.RemoveAll(dir) returns an error, which is logged
RemoveAllFails ==
    /\ build.pc = "deferred"
    /\ build' = [build EXCEPT !.pc = "returned", !.removal = "failed"]
    /\ UNCHANGED <<graphs, saves, last, parsed, tempDirs, responses>>
    /\ UNCHANGED beyondServer

\* handleBuildNode after Build has returned: 422 on an error, else the YAML
Respond ==
    /\ build.pc = "returned"
    /\ responses' = Append(responses, IF build.err # "" THEN 422 ELSE 200)
    /\ build' = [build EXCEPT !.pc = "idle"]
    /\ UNCHANGED <<graphs, saves, last, parsed, tempDirs>>
    /\ UNCHANGED beyondServer

BuildNext ==
    \/ Refuse
    \/ Accept
    \/ MkdirTempFails
    \/ MkdirTemp
    \/ DownloadFails
    \/ Download
    \/ ExtractFails
    \/ Extract
    \/ PathRejected
    \/ PathAccepted
    \/ KustomizeFails
    \/ Kustomize
    \/ EncodeFails
    \/ Encode
    \/ RemoveAll
    \/ RemoveAllFails
    \/ Respond

BuildSpec == BuildInit /\ [][BuildNext]_vars

\* the latest request: what build holds once a request has come in
Requested == "req" \in DOMAIN build

\* the target of the request is in the stored graph with the type given
TargetHasType(req, types) ==
    /\ GetNode(graphs, req.graphID, req.nodeID).found
    /\ GetNode(graphs, req.graphID, req.nodeID).details.Type \in types

\* C19: a build request whose target node is in the stored graph with type
\* component or error is answered with status 400, and for it no Builder is
\* made, no archive is asked for and no temporary directory is made: Build is
\* at no time under way for such a request.
C19_ComponentOrErrorRefused ==
    (Requested /\ TargetHasType(build.req, {"component", "error"}))
        => /\ build.pc = "idle"
           /\ responses # <<>>
           /\ Last(responses) = 400
           /\ ~build.builder
           /\ ~build.downloaded
           /\ build.dir = NoDir

\* an error node whose id ParseNodeID accepts, in a request that is well formed
\* in every other way, was refused with 400
C19_Witness ==
    /\ Requested
    /\ build.pc = "idle"
    /\ build.req = BuildRequest("uuid-1", IDBadRef, TRUE, TRUE)
    /\ TargetHasType(build.req, {"error"})
    /\ build.parts.ok
    /\ Last(responses) = 400
    /\ ~build.builder
    /\ tempDirs = {}

\* the deferred removal has run for every call of Build that made a directory and
\* has returned, and a removal that succeeded left no directory
RemovalAttempted ==
    (Requested /\ build.pc = "returned" /\ build.dir # NoDir)
        => /\ build.removal # "none"
           /\ build.removal = "removed" => build.dir \notin tempDirs

\* C18: for every call of Build that has made its temporary directory, the
\* directory is removed when Build returns, on every exit path (download,
\* extraction, build path, kustomize, encoding, success).
C18_TempDirRemoved ==
    (Requested /\ build.pc = "returned" /\ build.dir # NoDir)
        => build.dir \notin tempDirs

(***************************************************************************)
(* Analyze requests (handleAnalyze) that run at the same time.             *)
(*                                                                         *)
(* Each request has its own fetch results (what FindKustomizationInPath    *)
(* returns for each directory of its repository).  The maps and graphs     *)
(* that NewParser allocates are objects of a heap, and a Parser holds      *)
(* their addresses, so that two parsers may or may not hold the same       *)
(* object.  The references of a kustomization are relative ones inside the *)
(* entry repository.                                                       *)
(***************************************************************************)
Requests == {"a1", "a2"}

\* the IDs uuid.New() hands out: no ID twice
UUIDs == {"uuid-1", "uuid-2"}

\* a directory that holds a kustomization with these references, each the name
\* of a directory and the list it is in
Dir(path, refs) == [found |-> TRUE, path |-> path, refs |-> refs]

\* a directory FindKustomizationInPath finds nothing in
NoDirAt(path) == [found |-> FALSE, path |-> path, refs |-> <<>>]

InResources(name) == [name |-> name, refType |-> "resource"]

InComponents(name) == [name |-> name, refType |-> "component"]

\* what the repositories of the requests hold: an overlay over a base and a
\* component that uses the same base; an overlay and a base that name each
\* other; an overlay whose base is missing; nothing at the entry path
Repositories ==
    { [overlay |-> Dir(<<"overlay">>, <<InResources("base"), InComponents("comp")>>),
       base |-> Dir(<<"base">>, <<>>),
       comp |-> Dir(<<"comp">>, <<InResources("base")>>)],
      [overlay |-> Dir(<<"overlay">>, <<InResources("base")>>),
       base |-> Dir(<<"base">>, <<InResources("overlay")>>),
       comp |-> NoDirAt(<<"comp">>)],
      [overlay |-> Dir(<<"overlay">>, <<InResources("base")>>),
       base |-> NoDirAt(<<"base">>),
       comp |-> NoDirAt(<<"comp">>)],
      [overlay |-> NoDirAt(<<"overlay">>),
       base |-> NoDirAt(<<"base">>),
       comp |-> NoDirAt(<<"comp">>)] }

\* the references of one list, as written in the kustomization
Written(refs, refType) ==
    [i \in 1..Len(SelectSeq(refs, LAMBDA ref : ref.refType = refType))
        |-> <<"..", SelectSeq(refs, LAMBDA ref : ref.refType = refType)[i].name>>]

\* the content addNode stores: the lists of the kustomization
DirContent(dir) ==
    KustContent(Kustomization(Written(dir.refs, "resource"), <<>>,
                              Written(dir.refs, "component")))

\* the objects NewParser allocates
VisitedMap(ids) == [kind |-> "map", ids |-> ids, ID |-> "", Elements |-> <<>>, BaseURLs |-> <<>>]

GraphObject(id, els, urls) ==
    [kind |-> "graph", ids |-> {}, ID |-> id, Elements |-> els, BaseURLs |-> urls]

\* a NewParser that keeps one visited map for all parsers
NewParserSharedVisited(h) ==
    IF h = <<>>
    THEN [heap |-> h \o <<VisitedMap({}), GraphObject("", <<>>, <<>>)>>,
          p |-> [visitedURLs |-> 1, graph |-> 2]]
    ELSE [heap |-> h \o <<GraphObject("", <<>>, <<>>)>>,
          p |-> [visitedURLs |-> 1, graph |-> Len(h) + 1]]

\* NewParser: a Parser with a visited map and a graph of its own, and the heap
\* that holds them
NewParser(h) ==
    [heap |-> h \o <<VisitedMap({}), GraphObject("", <<>>, <<>>)>>,
     p |-> [visitedURLs |-> Len(h) + 1, graph |-> Len(h) + 2]]

\* the state of one parse: the visited set, the graph and the active
\* processKustomization calls with the references each has still to process
Parsing(visited, g, calls) == [visited |-> visited, g |-> g, calls |-> calls]

Called(nodeID, todo) == [nodeID |-> nodeID, todo |-> todo]

\* processKustomization for a directory that was found
enterKustomization(st, nodeID, dir, nodeType) ==
    IF nodeID \in st.visited THEN st
    ELSE Parsing(st.visited \cup {nodeID},
                 GraphObject(st.g.ID,
                     addNode(st.g.Elements, nodeID, nodeType, dir.path, DirContent(dir)),
                     addNodeURLs(st.g.BaseURLs, nodeID, RepoOR.BaseURL)),
                 Append(st.calls, Called(nodeID, dir.refs)))

\* the parse with the innermost call moved past its first reference
pastFirst(st, g) ==
    Parsing(st.visited, g,
            [st.calls EXCEPT ![Len(st.calls)].todo = Tail(st.calls[Len(st.calls)].todo)])

\* processReference for the first reference of the innermost call, up to the
\* entry into the child: an error node and an edge when the child is not
\* found, else the edge and then processKustomization of the child
referenceStep(st, parentID, childID, dir, refType) ==
    IF ~dir.found
    THEN pastFirst(st, GraphObject(st.g.ID,
             addEdge(addErrorNode(st.g.Elements, childID, dir.path, <<"File not found">>),
                     parentID, childID, refType),
             addErrorNodeURLs(st.g.Elements, st.g.BaseURLs, childID, RepoOR.BaseURL)))
    ELSE enterKustomization(
             pastFirst(st, GraphObject(st.g.ID,
                 addEdge(st.g.Elements, parentID, childID, refType), st.g.BaseURLs)),
             childID, dir, refType)

\* one step of the parse: the innermost call returns, or processes a reference
parseStep(st, repo) ==
    IF Last(st.calls).todo = <<>>
    THEN Parsing(st.visited, st.g, Front(st.calls))
    ELSE referenceStep(st, Last(st.calls).nodeID,
                       buildNodeID(RepoOR, repo[Head(Last(st.calls).todo).name].path),
                       repo[Head(Last(st.calls).todo).name],
                       Head(Last(st.calls).todo).refType)

\* Parse up to its first step: the entry kustomization entered as an overlay
parseStart(repo) ==
    enterKustomization(Parsing({}, GraphObject("", <<>>, <<>>), <<>>),
                       buildNodeID(RepoOR, repo.overlay.path), repo.overlay, "overlay")

\* the states a parse goes through when it runs alone with these fetch results
RECURSIVE aloneFrom(_, _)
aloneFrom(st, repo) ==
    IF st.calls = <<>> THEN {st} ELSE {st} \cup aloneFrom(parseStep(st, repo), repo)

\* the graph Parse returns when it runs alone with these fetch results
parseAlone(repo) == CHOOSE st \in aloneFrom(parseStart(repo), repo) : st.calls = <<>>

\* a request: its position, its fetch results, its Parser, the calls of the
\* parse, and the ID it gave to its graph
Request(pcOf, repo, p, calls, id) ==
    [pc |-> pcOf, repo |-> repo, p |-> p, calls |-> calls, id |-> id]

NoParserYet == [visitedURLs |-> 0, graph |-> 0]

\* the parse of a request, read from the heap
ParsingOf(r) ==
    Parsing(heap[analyze[r].p.visitedURLs].ids, heap[analyze[r].p.graph], analyze[r].calls)

\* the heap with the parse of the request written back
Stored(r, st) ==
    [heap EXCEPT ![analyze[r].p.visitedURLs] = VisitedMap(st.visited),
                 ![analyze[r].p.graph] = st.g]

AnalyzeInit ==
    /\ NoParser
    /\ NoCollector
    /\ NoServer
    /\ heap = <<>>
    /\ fetched = [op |-> "none"]
    /\ analyze \in [Requests -> {Request("new", repo, NoParserYet, <<>>, "") :
                                    repo \in Repositories}]

\* parser.NewParser(f, repoInfo)
NewParserCall(r) ==
    /\ analyze[r].pc = "new"
    /\ heap' = NewParser(heap).heap
    /\ analyze' = [analyze EXCEPT ![r].pc = "parse", ![r].p = NewParser(heap).p]
    /\ UNCHANGED <<graphs, saves>>
    /\ UNCHANGED beyondAnalyze

\* Parse: the entry kustomization is not found, the request is answered 500
ParseFails(r) ==
    /\ analyze[r].pc = "parse"
    /\ ~analyze[r].repo.overlay.found
    /\ analyze' = [analyze EXCEPT ![r].pc = "failed"]
    /\ UNCHANGED <<heap, graphs, saves>>
    /\ UNCHANGED beyondAnalyze

\* Parse: the entry kustomization is found and entered
ParseStart(r) ==
    /\ analyze[r].pc = "parse"
    /\ analyze[r].repo.overlay.found
    /\ heap' = Stored(r, enterKustomization(ParsingOf(r),
                   buildNodeID(RepoOR, analyze[r].repo.overlay.path),
                   analyze[r].repo.overlay, "overlay"))
    /\ analyze' = [analyze EXCEPT
          ![r].pc = "walk",
          ![r].calls = enterKustomization(ParsingOf(r),
                           buildNodeID(RepoOR, analyze[r].repo.overlay.path),
                           analyze[r].repo.overlay, "overlay").calls]
    /\ UNCHANGED <<graphs, saves>>
    /\ UNCHANGED beyondAnalyze

\* a step of the parse of one request
ParseStep(r) ==
    /\ analyze[r].pc = "walk"
    /\ analyze[r].calls # <<>>
    /\ heap' = Stored(r, parseStep(ParsingOf(r), analyze[r].repo))
    /\ analyze' = [analyze EXCEPT
          ![r].calls = parseStep(ParsingOf(r), analyze[r].repo).calls]
    /\ UNCHANGED <<graphs, saves>>
    /\ UNCHANGED beyondAnalyze

\* Parse has returned the graph: graph.ID = uuid.New().String()
NewUUID(r) ==
    /\ analyze[r].pc = "walk"
    /\ analyze[r].calls = <<>>
    /\ \E id \in UUIDs \ {analyze[q].id : q \in Requests} :
          /\ heap' = [heap EXCEPT ![analyze[r].p.graph].ID = id]
          /\ analyze' = [analyze EXCEPT ![r].pc = "save", ![r].id = id]
    /\ UNCHANGED <<graphs, saves>>
    /\ UNCHANGED beyondAnalyze

\* store.SaveGraph(graph)
SaveCall(r) ==
    /\ analyze[r].pc = "save"
    /\ graphs' = SaveGraph(graphs,
          StoredGraph(heap[analyze[r].p.graph].ID, heap[analyze[r].p.graph].Elements,
                      heap[analyze[r].p.graph].BaseURLs)).graphs
    /\ saves' = Append(saves,
          [graph |-> StoredGraph(heap[analyze[r].p.graph].ID,
                                 heap[analyze[r].p.graph].Elements,
                                 heap[analyze[r].p.graph].BaseURLs),
           err |-> FALSE])
    /\ analyze' = [analyze EXCEPT ![r].pc = "done"]
    /\ UNCHANGED heap
    /\ UNCHANGED beyondAnalyze

AnalyzeNext ==
    \E r \in Requests :
        \/ NewParserCall(r)
        \/ ParseFails(r)
        \/ ParseStart(r)
        \/ ParseStep(r)
        \/ NewUUID(r)
        \/ SaveCall(r)

AnalyzeSpec == AnalyzeInit /\ [][AnalyzeNext]_vars

\* the parsers of two requests hold different maps and graphs
ParsersApart ==
    \A q, r \in Requests :
        (q # r /\ analyze[q].pc # "new" /\ analyze[r].pc # "new") =>
            {analyze[q].p.visitedURLs, analyze[q].p.graph}
                \cap {analyze[r].p.visitedURLs, analyze[r].p.graph} = {}

\* the parse of a request is at every step where the same parse is when it
\* runs alone
ParsesAsAlone ==
    \A r \in Requests :
        analyze[r].pc = "walk" =>
            ParsingOf(r) \in aloneFrom(parseStart(analyze[r].repo), analyze[r].repo)

\* the graph a request has saved is stored under its own ID and is the one its
\* parse returns when it runs alone
SavedAsAlone ==
    \A r \in Requests :
        analyze[r].pc = "done" =>
            /\ analyze[r].id # ""
            /\ \A q \in Requests \ {r} : analyze[q].id # analyze[r].id
            /\ GetGraph(graphs, analyze[r].id).found
            /\ GetGraph(graphs, analyze[r].id).graph.Elements
                  = parseAlone(analyze[r].repo).g.Elements
            /\ GetGraph(graphs, analyze[r].id).graph.BaseURLs
                  = parseAlone(analyze[r].repo).g.BaseURLs

\* C22: analyze requests that run at the same time share no parser state: each has
\* its own parser, visited set and graph, so in every interleaving the graph a
\* request saves is the graph the same request produces alone with the same
\* fetch results, and it is stored under its own fresh ID.
C22_RequestsShareNoParserState == ParsersApart /\ ParsesAsAlone /\ SavedAsAlone

\* two requests for the same repository have both saved their graph, of the same
\* six elements: the one that made its parser first has saved last
C22_Witness ==
    /\ \A r \in Requests : analyze[r].pc = "done"
    /\ analyze["a1"].repo = analyze["a2"].repo
    /\ analyze["a1"].p.graph < analyze["a2"].p.visitedURLs
    /\ analyze["a1"].id = "uuid-2" /\ analyze["a2"].id = "uuid-1"
    /\ saves[1].graph.ID = "uuid-1"
    /\ Len(graphs["uuid-1"].Elements) = 6
    /\ graphs["uuid-1"].Elements = graphs["uuid-2"].Elements

(***************************************************************************)
(* LocalFetcher on a disk with symbolic links (package fetcher).           *)
(*                                                                         *)
(* A path on disk is the sequence of its segments from the root directory. *)
(* os.Stat and os.ReadFile follow symbolic links, as the system does.      *)
(***************************************************************************)
\* segments of the path argument
MaxPath == 3

\* RootPath of the fetcher
FetcherRoot == <<"home", "u", "repo">>

\* the symbolic links on the disk: one in the repository that leads out of it, one
\* that stays in it
Symlinks ==
    (FetcherRoot \o <<"out">>) :> <<"etc">>
    @@ (FetcherRoot \o <<"in">>) :> (FetcherRoot \o <<"a">>)

\* the regular files on the disk
Files ==
    { FetcherRoot \o <<"kustomization.yaml">>,
      FetcherRoot \o <<"a", "kustomization.yaml">>,
      FetcherRoot \o <<"a", "d.yaml">>,
      <<"etc", "kustomization.yaml">>,
      <<"etc", "d.yaml">>,
      <<"home", "u", "d.yaml">> }

\* where the system finds a path: each link on the way is followed
RECURSIVE resolveFrom(_, _)
resolveFrom(at, rest) ==
    IF rest = <<>> THEN at
    ELSE IF Append(at, Head(rest)) \in DOMAIN Symlinks
         THEN resolveFrom(Symlinks[Append(at, Head(rest))], Tail(rest))
         ELSE resolveFrom(Append(at, Head(rest)), Tail(rest))

Resolved(full) == resolveFrom(<<>>, full)

\* os.ReadFile(full): the file read, or none
NoFile == <<>>

ReadFile(full) == IF Resolved(full) \in Files THEN Resolved(full) ELSE NoFile

\* joinPath: the path under the root, or the error that it escapes the root
joinPath(root, path) ==
    [err |-> ~IsPrefix(root, AbsJoin(root, path)), full |-> AbsJoin(root, path)]

\* what a call returns: an error, or the content of the file read
Fetched(op, path, err, read) == [op |-> op, path |-> path, err |-> err, read |-> read]

\* FetchFile
FetchFile(root, path) ==
    IF joinPath(root, path).err THEN Fetched("FetchFile", path, TRUE, NoFile)
    ELSE Fetched("FetchFile", path, ReadFile(joinPath(root, path).full) = NoFile,
                 ReadFile(joinPath(root, path).full))

\* the names FindKustomizationInPath tries in a directory
KustomizationNames == <<"kustomization.yaml", "kustomization.yml", "Kustomization">>

\* the names of the list, from the i-th on, that give a file to read
RECURSIVE firstNamed(_, _, _)
firstNamed(root, path, i) ==
    IF i > Len(KustomizationNames) THEN NoFile
    ELSE IF ~joinPath(root, Append(path, KustomizationNames[i])).err
            /\ ReadFile(joinPath(root, Append(path, KustomizationNames[i])).full) # NoFile
         THEN ReadFile(joinPath(root, Append(path, KustomizationNames[i])).full)
         ELSE firstNamed(root, path, i + 1)

\* FindKustomizationInPath: the path itself when it is a file, else the first
\* of the names in it
FindKustomizationInPath(root, path) ==
    IF joinPath(root, path).err
    THEN Fetched("FindKustomizationInPath", path, TRUE, NoFile)
    ELSE IF ReadFile(joinPath(root, path).full) # NoFile
    THEN Fetched("FindKustomizationInPath", path, FALSE, ReadFile(joinPath(root, path).full))
    ELSE Fetched("FindKustomizationInPath", path, firstNamed(root, path, 1) = NoFile,
                 firstNamed(root, path, 1))

\* the path arguments
PathSegments == {"..", "a", "in", "out", "d.yaml"}

Paths == UNION {[1..n -> PathSegments] : n \in 0..MaxPath}

FetchInit ==
    /\ NoParser
    /\ NoCollector
    /\ NoServer
    /\ NoAnalyze

\* a call of FetchFile on the fetcher
FetchFileCall ==
    /\ fetched.op = "none"
    /\ \E path \in Paths : fetched' = FetchFile(FetcherRoot, path)
    /\ UNCHANGED beyondFetch

\* a call of FindKustomizationInPath on the fetcher
FindKustomizationCall ==
    /\ fetched.op = "none"
    /\ \E path \in Paths : fetched' = FindKustomizationInPath(FetcherRoot, path)
    /\ UNCHANGED beyondFetch

FetchNext == FetchFileCall \/ FindKustomizationCall

FetchSpec == FetchInit /\ [][FetchNext]_vars

\* a call that read a file joined a path that is, as written, under the root
ReadsUnderRootAsWritten ==
    (fetched.op # "none" /\ ~fetched.err) =>
        /\ fetched.read # NoFile
        /\ \E full \in {AbsJoin(FetcherRoot, fetched.path)}
                       \cup {AbsJoin(FetcherRoot, Append(fetched.path, KustomizationNames[i])) :
                                i \in 1..Len(KustomizationNames)} :
              IsPrefix(FetcherRoot, full) /\ Resolved(full) = fetched.read

\* C23: for every path argument, with '..' segments or through a symbolic link,
\* FetchFile and FindKustomizationInPath return an error or read only a file
\* whose resolved location is under the fetcher's rootPath.
C23_ReadsOnlyUnderRoot ==
    (fetched.op # "none" /\ ~fetched.err) => IsPrefix(FetcherRoot, fetched.read)

(***************************************************************************)
(* Properties of addNode and addEdge during a parse.                       *)
(***************************************************************************)
\* the graph holds a node of that id that is not an error node
Concrete(id) == HasNode(elements, id) /\ elements[NodeIndex(elements, id)].Type # "error"

\* the plans of the reference at hand with which addNode is called next: a YAML
\* leaf, or a kustomization that is looked up, found and not visited
AddNodePlans ==
    IF ~Walking THEN {}
    ELSE {plan \in {PlanOf(Top, Cur, created) :
                       created \in Creations(NeedsFetcher(Top.path, Top.repo, Cur.ref))} :
             \/ plan.kind = "leaf"
             \/ /\ plan.kind = "lookup"
                /\ plan.childID \notin visitedURLs
                /\ \E out \in Outcomes(plan.fetcher, plan.childPath) : out.status = "found"}

\* the elements are left as they are by the addNode call of the plan
ElementsKept(plan) ==
    \A nodeType \in {"resource", "component"} :
        addNode(elements, plan.childID, nodeType, plan.childPath, NoContent) = elements

\* C24: addNode with an id that exists as a concrete node changes nothing in the
\* graph: not the elements, not that node, not the BaseURLs map.
C24_AddNodeOnConcreteIsNoOp ==
    \A plan \in AddNodePlans :
        Concrete(plan.childID) =>
            /\ ElementsKept(plan)
            /\ addNodeURLs(baseURLs, plan.childID, plan.baseURL) = baseURLs

\* C24 without the BaseURLs map: the elements, and so the node, are unchanged
C24_ElementsKeptOnConcrete ==
    \A plan \in AddNodePlans : Concrete(plan.childID) => ElementsKept(plan)

\* addNode is about to be called with the id of a concrete node
C24_Witness ==
    \E plan \in AddNodePlans :
        /\ Concrete(plan.childID)
        /\ ElementsKept(plan)
        /\ plan.baseURL # <<>>

\* no two edge elements join the same source to the same target
OneEdgePerPair ==
    \A i, j \in EdgeIdx :
        (elements[i].Source = elements[j].Source /\ elements[i].Target = elements[j].Target)
            => i = j

\* a step leaves every edge element as it is, its edgeType included
EdgesKept ==
    \A i \in EdgeIdx : i <= Len(elements') /\ elements'[i] = elements[i]

\* the reference at hand, whatever its list, joins a pair that has its edge
SecondReference ==
    /\ Walking
    /\ \E plan \in {PlanOf(Top, Cur, created) :
                      created \in Creations(NeedsFetcher(Top.path, Top.repo, Cur.ref))} :
          HasEdge(elements, Top.nodeID, plan.childID)

\* a second reference to a child adds no edge
NoSecondEdge ==
    SecondReference =>
        Cardinality({i \in 1..Len(elements') : elements'[i].Group = "edges"})
            = Cardinality(EdgeIdx)

\* C25: at every step of a parse there is at most one edge element per (source,
\* target) pair; a second reference of a parent to the same child, also through
\* another list, adds no edge and leaves the edgeType of the first edge.
C25_OneEdgePerPair == []OneEdgePerPair /\ [][EdgesKept /\ NoSecondEdge]_vars

\* the parse is done of a kustomization that lists the same file under resources
\* and under components: one edge to it, of type resource
C25_Witness ==
    /\ pc = "done"
    /\ \E n \in NodeIdx, e \in EdgeIdx :
          /\ elements[n].Content.tag = "kust"
          /\ YamlFile \in {elements[n].Content.resources[i] :
                              i \in 1..Len(elements[n].Content.resources)}
          /\ YamlFile \in {elements[n].Content.components[i] :
                              i \in 1..Len(elements[n].Content.components)}
          /\ elements[e].Source = elements[n].ID
          /\ Last(SubSeq(elements[e].Target, 1, Len(elements[e].Target) - 2)) = "d.yaml"
          /\ elements[e].EdgeType = "resource"

(***************************************************************************)
(* Where Build runs the kustomize engine.                                  *)
(***************************************************************************)
\* the kustomize engine is about to run, or has run, for the request at hand
EngineRuns == Requested /\ build.pc \in {"kustomize", "encode"}

\* a build path that leaves the temporary directory for a name that does not
\* begin with the directory's name is rejected
OtherNamesRejected ==
    EngineRuns =>
        /\ Len(buildPath(build.dir, build.rootDir, build.parts.Path)) >= Len(build.dir)
        /\ StartsWith(buildPath(build.dir, build.rootDir, build.parts.Path)[Len(build.dir)],
                      Last(build.dir))

\* C26: Build runs the kustomize engine only at a buildPath inside the temporary
\* directory of this build: for every node path, '..' segments included, a
\* buildPath outside that directory is rejected and the engine is not run.
C26_EngineRunsInsideTempDir ==
    EngineRuns => IsPrefix(build.dir, buildPath(build.dir, build.rootDir, build.parts.Path))

(***************************************************************************)
(* The cache of getPEMForHost over time.                                   *)
(***************************************************************************)
\* the host has an entry whose expiresAt is later than now
Unexpired(host) == host \in DOMAIN cache /\ cache[host].expiresAt > clock

\* getPEMForHost returns from the cache: only an unexpired entry, its PEM, no dial
HitStep(c) ==
    (collect[c].pc = "read" /\ collect'[c].pc = "certs") =>
        /\ Unexpired(Host(c))
        /\ collect'[c].pemBlock = cache[Host(c)].pem
        /\ collect'[c].dialed = collect[c].dialed
        /\ cache' = cache

\* getPEMForHost goes on to dial: there is no unexpired entry
MissStep(c) ==
    (collect[c].pc = "read" /\ collect'[c].pc = "dial") => ~Unexpired(Host(c))

\* a dial that failed: the cache is as it was, the error is returned and the host
\* is skipped
FailStep(c) ==
    (collect[c].pc = "dial" /\ collect'[c].pc \notin {"dial", "lock"}) =>
        /\ cache' = cache
        /\ Host(c) \in collect'[c].skipped
        /\ Host(c) \notin DOMAIN collect'[c].got

\* a dial that succeeded: the entry of the host is what was dialed, expiring at
\* now + TTL; no other entry changes
StoreStep(c) ==
    (collect[c].pc = "store" /\ collect'[c].pc = "certs") =>
        /\ DOMAIN cache' = DOMAIN cache \cup {Host(c)}
        /\ cache'[Host(c)].pem = collect[c].own[2]
        /\ cache'[Host(c)].expiresAt = clock + ttl
        /\ \A h \in DOMAIN cache \ {Host(c)} : cache'[h] = cache[h]

\* the cache changes in no other step
OnlyStoreWrites ==
    cache' # cache => \E c \in Callers : collect[c].pc = "store" /\ collect'[c].pc = "certs"

\* C27: getPEMForHost returns a cached PEM without dialing exactly when the host has
\* an entry whose expiresAt is strictly later than the current time; an expired
\* entry is never returned, the lookup dials again, a successful dial replaces
\* the entry with expiresAt = now + TTL, and a failed dial leaves the cache
\* unchanged and returns the error.
C27_CacheByExpiry ==
    [][/\ OnlyStoreWrites
       /\ \A c \in Callers : HitStep(c) /\ MissStep(c) /\ FailStep(c) /\ StoreStep(c)]_vars

\* with a TTL of 1, a caller was answered from the cache for one host and then,
\* at time 1, found the entry of another host expired, dialed, and replaced it
\* with one that expires at 2
C27_Witness ==
    /\ ttl = 1
    /\ \E c \in Callers :
          /\ collect[c].hit # <<>>
          /\ collect[c].own # <<>>
          /\ collect[c].own[1] # collect[c].hit[1]
          /\ collect[c].pc \in {"certs", "host", "attach", "done"}
          /\ collect[c].own[1] \in DOMAIN cache
          /\ cache[collect[c].own[1]].expiresAt = 2
          /\ \E d \in Callers \ {c} :
                /\ collect[c].own[1] \in DOMAIN collect[d].got
                /\ collect[c].own[1] \in collect[d].dialed

(***************************************************************************)
(* Every node of the graph hangs from the entry node.                      *)
(***************************************************************************)

RECURSIVE ReachedFrom(_, _)
\* the ids reached from the ids of `from` by edges of els, source to target
ReachedFrom(els, from) ==
    LET step == from \cup {els[i].Target : i \in {j \in 1..Len(els) :
                                els[j].Group = "edges" /\ els[j].Source \in from}}
    IN  IF step = from THEN from ELSE ReachedFrom(els, step)

IsTarget(els, id) ==
    \E i \in 1..Len(els) : els[i].Group = "edges" /\ els[i].Target = id

HangsFromEntry(n) ==
    elements[n].ID # EntryID =>
        /\ IsTarget(elements, elements[n].ID)
        /\ elements[n].ID \in ReachedFrom(elements, {EntryID})

\* C28: in the graph Parse returns, and in the graph at every step of the walk,
\* every node other than the entry node is the target of an edge and is reached
\* from the entry node by edges followed from source to target
C28_NodesHangFromEntry ==
    pc \in {"walking", "done"} => \A n \in NodeIdx : HangsFromEntry(n)

\* the parse is done with a node two edges away from the entry node, a leaf
\* node and an error node, none of them the target of an edge from the entry node
\* for the first, and each the target of an edge
C28_Witness ==
    /\ pc = "done"
    /\ \E n \in NodeIdx :
          /\ elements[n].ID # EntryID
          /\ ~HasEdge(elements, EntryID, elements[n].ID)
          /\ elements[n].ID \in ReachedFrom(elements, {EntryID})
    /\ \E n \in NodeIdx :
          /\ elements[n].Type = "error"
          /\ IsTarget(elements, elements[n].ID)
    /\ \E n \in NodeIdx :
          /\ elements[n].Type = "resource"
          /\ elements[n].Content.tag # "kust"
          /\ IsTarget(elements, elements[n].ID)

(***************************************************************************)
(* Only parsed kustomizations are expanded.                                *)
(***************************************************************************)

\* the node of id holds a kustomization that was fetched and parsed
ParsedNode(els, id) ==
    /\ HasNode(els, id)
    /\ NodeOf(els, id).Type # "error"
    /\ NodeOf(els, id).Content.tag = "kust"

NoErrorSource ==
    \A e \in EdgeIdx :
        ~(HasNode(elements, elements[e].Source)
            /\ NodeOf(elements, elements[e].Source).Type = "error")

\* C29: no edge has an error node as its source, in the graph Parse returns and
\* at every step of the walk: the source of every edge, and every kustomization
\* whose references are being processed, is a node with a parsed kustomization
C29_NoEdgeFromErrorNode ==
    pc \in {"walking", "done"} =>
        /\ NoErrorSource
        /\ \A e \in EdgeIdx : ParsedNode(elements, elements[e].Source)
        /\ \A f \in 1..Len(stack) : ParsedNode(elements, stack[f].nodeID)

\* the parse is done with an error node in the graph, the target of an edge, and
\* with a node that was an error node when a first reference to it failed and was
\* expanded when a later reference to the same id was fetched and parsed
C29_Witness ==
    /\ pc = "done"
    /\ \E n \in NodeIdx :
          /\ elements[n].Type = "error"
          /\ IsTarget(elements, elements[n].ID)
    /\ \E i, j \in 1..Len(lookups) :
          /\ i < j
          /\ lookups[i].id = lookups[j].id
          /\ lookups[i].status = "notfound"
          /\ lookups[j].expanded
          /\ ParsedNode(elements, lookups[j].id)
          /\ \E e \in EdgeIdx : elements[e].Source = lookups[j].id

(***************************************************************************)
(* Node ids and the documents they stand for.                              *)
(***************************************************************************)

\* the repository a kustomization was looked up in: the root directory of a local
\* repository, the host, owner and name of a remote one
RepositoryOf(l) ==
    IF l.repo.Type = Local THEN <<Local, l.repo.RootPath>>
    ELSE <<l.repo.Type, l.repo.BaseURL, l.repo.Owner, l.repo.Repo>>

\* two lookups of kustomizations that differ in repository, in path or in ref
DifferentDocuments(l1, l2) ==
    \/ RepositoryOf(l1) # RepositoryOf(l2)
    \/ l1.path # l2.path
    \/ l1.repo.Ref # l2.repo.Ref

\* the lookups of kustomizations of the walk so far
KustomizationLookups == {i \in 1..Len(lookups) : lookups[i].id # <<>>}

\* a lookup that found its kustomization and did not expand it, its id being
\* among the visited ones
SkippedAsVisited(i) == lookups[i].status = "found" /\ ~lookups[i].expanded

\* C30: kustomizations that differ in repository (host for remote repositories,
\* root directory for local ones), in path or in ref have different node ids, so
\* that none is skipped as visited because of another one
C30_DifferentDocumentsDifferentIDs ==
    \A i, j \in KustomizationLookups :
        /\ DifferentDocuments(lookups[i], lookups[j]) =>
              buildNodeID(lookups[i].repo, lookups[i].path)
                  # buildNodeID(lookups[j].repo, lookups[j].path)
        /\ (i < j /\ lookups[i].id = lookups[j].id /\ SkippedAsVisited(j)) =>
              ~DifferentDocuments(lookups[i], lookups[j])

====
